---- MODULE Spec2Model ----
(***************************************************************************)
(* A model of the R65 compiler back end as the repository documents it:    *)
(* accumulator-mode handling around calls, the long-branch fixup pass,     *)
(* TypeId assignment and trait dispatch tables, match compilation and the  *)
(* near/far call rule.  Each subsystem has its own variables and its own   *)
(* specification; a subsystem's actions leave the others' variables alone. *)
(***************************************************************************)
EXTENDS Integers, Sequences, FiniteSets, TLC

VARIABLES
    \* processor-mode subsystem
    mfuncs,      \* function declarations: the type of the @ A parameter
    mflag,       \* the M bit of STATUS as a mode name, "m8" or "m16"
    mstack,      \* call stack: frames [fn, before, pc]
    mobs,        \* the completed call last observed, <<>> or <<[before, after]>>
    \* branch fixup subsystem
    forig,       \* instruction list handed to the fixup pass
    fprog,       \* instruction list after the pass
    fphase,      \* "emitted" | "fixed"
    fprobe,      \* last executed branch: where it lands before/after the pass
    \* trait dispatch subsystem
    typeId,      \* TypeId of each struct, 0 = none assigned
    nextId,      \* next TypeId to hand out
    implLog,     \* accepted impl blocks <<struct, trait>> in declaration order
    tables,      \* per (trait, method) dispatch table, built once
    built,       \* whether the tables have been constructed
    lastDispatch,\* the last dynamic dispatch performed
    terror,      \* the last error of the trait dispatch builder
    \* match compiler subsystem
    desc,        \* the match descriptor
    mphase,      \* "parsed" | "compiled" | "ran"
    emitted,     \* the emitted dispatch code, or NoCode
    merror,      \* compile error of the match, or "none"
    mresult,     \* last run of the emitted code: [val, out]
    \* near/far call subsystem
    cfuncs,      \* function declarations: bank and near/far
    callCheck,   \* the last checked call site and its verdict
    \* short-circuit subsystem
    scExpr,      \* the condition: operator, operand count, operand kinds
    scPc,        \* index of the next instruction of the lowered condition
    scZ,         \* TRUE when the last operand evaluated to false (Z set)
    scLog,       \* operands evaluated so far, in order: [i, val]
    scExec,      \* whether the guarded body `execute()` has run
    \* loop subsystem
    lnest,       \* loops of the function body, outermost first
    ljumps,      \* the break/continue statements of the body
    lphase,      \* "parsed" | "lowered" | "rejected"
    lcode,       \* the JMP emitted for each statement
    lerror,      \* compile error of the loop checks, or "none"
    lprobe,      \* the last executed jump and where it landed
    \* register allocation subsystem
    rbody,       \* MIR of the function body
    rpool,       \* number of scratch registers of the pool
    ralloc,      \* physical location of each VReg
    rphase,      \* "mir" | "allocated" | "rejected"
    rerror,      \* compile error of the allocator, or "none"
    rpc,         \* next instruction of the allocated body
    rmem,        \* which VReg each location holds
    robs,        \* the last use executed: the VReg and what was read
    \* parameter passing subsystem
    adecl,       \* the parameters of a declaration, by passing mechanism
    aphase,      \* "declared" | "lowered" | "rejected"
    aerror,      \* compile error of the declaration, or "none"
    acall,       \* the stack pushes of an emitted call of the function
    \* interrupt subsystem
    ireg,        \* CPU registers A, B, X, Y, D, DBR and the STATUS bits M, I, C
    istack,      \* the bytes on the hardware stack, top last
    ipc,         \* per active handler, the index of its next instruction
    isaved,      \* per active handler, the registers when its interrupt fired
    iobs,        \* the last RTI: registers at the interrupt and after it
    \* register preservation subsystem
    pdecl,       \* the function: @ A parameter, preserve list, entry order
    preg,        \* CPU registers and STATUS bits
    pstack,      \* the bytes on the hardware stack, top last
    ppc,         \* 0 outside the function, else its next instruction
    pentry,      \* registers and stack depth at the call
    pobs,        \* registers, stack depth and return address at the RTS
    \* never-returning function subsystem
    nfn,         \* the function: -> !, near/far, statements of the body
    nphase,      \* "parsed" | "lowered" | "rejected"
    nerror,      \* compile error of the function, or "none"
    ncode,       \* the emitted instructions
    npc,         \* next instruction of the emitted code
    nend,        \* how the run ended: "loops" | "halted" | "returned"
    \* dispatch sequence subsystem
    dobj,        \* the object: TypeId byte and the byte after it
    dfar,        \* whether the trait is far (JML trampoline)
    dreg,        \* A, B, X and the M bit at the call site
    dpc,         \* next instruction of the dispatch sequence
    dland,       \* where the indirect jump landed
    \* loop execution subsystem
    floop,       \* the loop: kind, range, whether the body may continue
    fi,          \* the loop variable, a u8
    fpc,         \* next instruction of the lowered loop
    fiter,       \* iterations started, counted up to IterCap
    ford,        \* whether iteration n started with start + n - 1
    fskips,      \* whether all / any iterations executed continue
    fobs,        \* the continue just executed: the variable, where it landed
    \* two-pass coalescence subsystem
    cbody,       \* MIR of the function body, with moves
    cbind,       \* explicit register aliases and fixed memory locations
    cpass,       \* number of coalescence passes done
    cco,         \* the VRegs coalesced after pass 1 and after pass 2
    cplace,      \* where the explicit bindings are after the passes
    cpc,         \* next instruction of the body
    cmem,        \* the value the register and each memory slot hold
    cobs,        \* the last use executed: the VReg and what was read
    \* repeated branch fixup subsystem
    gorig,       \* instruction list handed to the fixup pass
    gonce,       \* the list after one run of the pass
    gtwice,      \* the list after a second run, on the output of the first
    gphase,      \* "emitted" | "fixed" | "fixed_again"
    \* stack parameter subsystem
    sargs,       \* the arguments of the call, first parameter first
    sreg,        \* A, B, X, the M flag and the carry
    sstack,      \* the bytes on the hardware stack, top last
    spc,         \* next instruction of caller and callee
    sentry,      \* the stack pointer before the arguments were pushed
    sobs         \* stack pointer, return address and A after the RTS

modeVars  == <<mfuncs, mflag, mstack, mobs>>
fixVars   == <<forig, fprog, fphase, fprobe>>
traitVars == <<typeId, nextId, implLog, tables, built, lastDispatch, terror>>
matchVars == <<desc, mphase, emitted, merror, mresult>>
callVars  == <<cfuncs, callCheck>>
scVars    == <<scExpr, scPc, scZ, scLog, scExec>>
loopVars  == <<lnest, ljumps, lphase, lcode, lerror, lprobe>>
raVars == <<rbody, rpool, ralloc, rphase, rerror, rpc, rmem, robs>>
abiVars == <<adecl, aphase, aerror, acall>>
irqVars == <<ireg, istack, ipc, isaved, iobs>>
presVars == <<pdecl, preg, pstack, ppc, pentry, pobs>>
neverVars == <<nfn, nphase, nerror, ncode, npc, nend>>
dispVars == <<dobj, dfar, dreg, dpc, dland>>
forVars == <<floop, fi, fpc, fiter, ford, fskips, fobs>>
coalVars == <<cbody, cbind, cpass, cco, cplace, cpc, cmem, cobs>>
idemVars == <<gorig, gonce, gtwice, gphase>>
frameVars == <<sargs, sreg, sstack, spc, sentry, sobs>>
coreVars  == <<modeVars, fixVars, traitVars, matchVars, callVars>>
laterVars == <<scVars, loopVars, raVars, abiVars, irqVars, presVars, neverVars, dispVars, forVars, coalVars, idemVars, frameVars>>
vars == <<coreVars, laterVars>>

None == "none"

\* What each subsystem's actions leave alone.
NotMode  == <<fixVars, traitVars, matchVars, callVars, laterVars>>
NotFix   == <<modeVars, traitVars, matchVars, callVars, laterVars>>
NotTrait == <<modeVars, fixVars, matchVars, callVars, laterVars>>
NotMatch == <<modeVars, fixVars, traitVars, callVars, laterVars>>
NotCall  == <<modeVars, fixVars, traitVars, matchVars, laterVars>>
NotSC == <<coreVars, loopVars, raVars, abiVars, irqVars, presVars, neverVars, dispVars, forVars, coalVars, idemVars, frameVars>>
NotLoop == <<coreVars, scVars, raVars, abiVars, irqVars, presVars, neverVars, dispVars, forVars, coalVars, idemVars, frameVars>>
NotRA == <<coreVars, scVars, loopVars, abiVars, irqVars, presVars, neverVars, dispVars, forVars, coalVars, idemVars, frameVars>>
NotAbi == <<coreVars, scVars, loopVars, raVars, irqVars, presVars, neverVars, dispVars, forVars, coalVars, idemVars, frameVars>>
NotIrq == <<coreVars, scVars, loopVars, raVars, abiVars, presVars, neverVars, dispVars, forVars, coalVars, idemVars, frameVars>>
NotPres == <<coreVars, scVars, loopVars, raVars, abiVars, irqVars, neverVars, dispVars, forVars, coalVars, idemVars, frameVars>>
NotNever == <<coreVars, scVars, loopVars, raVars, abiVars, irqVars, presVars, dispVars, forVars, coalVars, idemVars, frameVars>>
NotDisp == <<coreVars, scVars, loopVars, raVars, abiVars, irqVars, presVars, neverVars, forVars, coalVars, idemVars, frameVars>>
NotFor == <<coreVars, scVars, loopVars, raVars, abiVars, irqVars, presVars, neverVars, dispVars, coalVars, idemVars, frameVars>>
NotCoal == <<coreVars, scVars, loopVars, raVars, abiVars, irqVars, presVars, neverVars, dispVars, forVars, idemVars, frameVars>>
NotIdem == <<coreVars, scVars, loopVars, raVars, abiVars, irqVars, presVars, neverVars, dispVars, forVars, coalVars, frameVars>>
NotFrame == <<coreVars, scVars, loopVars, raVars, abiVars, irqVars, presVars, neverVars, dispVars, forVars, coalVars, idemVars>>

\* The value every variable of a subsystem holds while another one is checked.
ModeIdle  == mfuncs = None /\ mflag = None /\ mstack = None /\ mobs = None
FixIdle   == forig = None /\ fprog = None /\ fphase = None /\ fprobe = None
TraitIdle == /\ typeId = None /\ nextId = None /\ implLog = None
             /\ tables = None /\ built = None /\ lastDispatch = None
             /\ terror = None
MatchIdle == /\ desc = None /\ mphase = None /\ emitted = None
             /\ merror = None /\ mresult = None
CallIdle  == cfuncs = None /\ callCheck = None
CoreIdle  == ModeIdle /\ FixIdle /\ TraitIdle /\ MatchIdle /\ CallIdle
SCIdle    == /\ scExpr = None /\ scPc = None /\ scZ = None
             /\ scLog = None /\ scExec = None
LoopIdle  == /\ lnest = None /\ ljumps = None /\ lphase = None
             /\ lcode = None /\ lerror = None /\ lprobe = None
RAIdle    == /\ rbody = None /\ rpool = None /\ ralloc = None
             /\ rphase = None /\ rerror = None /\ rpc = None
             /\ rmem = None /\ robs = None
AbiIdle   == /\ adecl = None /\ aphase = None /\ aerror = None
             /\ acall = None
IrqIdle   == /\ ireg = None /\ istack = None /\ ipc = None
             /\ isaved = None /\ iobs = None
PresIdle  == /\ pdecl = None /\ preg = None /\ pstack = None
             /\ ppc = None /\ pentry = None /\ pobs = None
NeverIdle == /\ nfn = None /\ nphase = None /\ nerror = None
             /\ ncode = None /\ npc = None /\ nend = None
DispIdle  == /\ dobj = None /\ dfar = None /\ dreg = None
             /\ dpc = None /\ dland = None
ForIdle   == /\ floop = None /\ fi = None /\ fpc = None /\ fiter = None
             /\ ford = None /\ fskips = None /\ fobs = None
CoalIdle  == /\ cbody = None /\ cbind = None /\ cpass = None /\ cco = None
             /\ cplace = None /\ cpc = None /\ cmem = None /\ cobs = None
IdemIdle  == /\ gorig = None /\ gonce = None /\ gtwice = None /\ gphase = None
FrameIdle == /\ sargs = None /\ sreg = None /\ sstack = None
             /\ spc = None /\ sentry = None /\ sobs = None
LaterIdle == SCIdle /\ LoopIdle /\ RAIdle /\ AbiIdle /\ IrqIdle /\ PresIdle /\ NeverIdle /\ DispIdle /\ ForIdle /\ CoalIdle /\ IdemIdle /\ FrameIdle

(***************************************************************************)
(* Processor modes: m8/m16 inference and the callee's REP/SEP.             *)
(***************************************************************************)
NumFuncs == 2
MaxDepth == 3

Funcs == 1..NumFuncs
AParamTypes == {"none", "u8", "u16"}

\* A function is m16 exactly when it declares `@ A: u16`, m8 otherwise.
InferMode(fd) == IF fd.aparam = "u16" THEN "m16" ELSE "m8"

\* REP #$20 clears the M bit (16-bit accumulator), SEP #$20 sets it (8-bit).
REP20(m) == "m16"
SEP20(m) == "m8"

\* Prologue of a function: an m16 function emits REP #$20, an m8 function
\* emits no mode switch.
PrologueMode(fd, m) == IF InferMode(fd) = "m16" THEN REP20(m) ELSE m

\* Code before every RTS/RTL: an m16 function emits SEP #$20, an m8 function
\* emits nothing.
EpilogueMode(fd, m) == IF InferMode(fd) = "m16" THEN SEP20(m) ELSE m

ModeInit ==
    /\ mfuncs \in [Funcs -> [aparam : AParamTypes]]
    /\ mflag = "m8"          \* the entry point runs in the default mode
    /\ mstack = <<>>
    /\ mobs = <<>>

\* JSR/JSL from the running body (the entry point's, or the top frame's).
MCall(f) ==
    /\ Len(mstack) < MaxDepth
    /\ mstack # <<>> => mstack[Len(mstack)].pc = "body"
    /\ mstack' = Append(mstack, [fn |-> f, before |-> mflag, pc |-> "entry"])
    /\ UNCHANGED <<mfuncs, mflag, mobs>>
    /\ UNCHANGED NotMode

\* The callee's prologue runs.
MPrologue ==
    /\ mstack # <<>>
    /\ mstack[Len(mstack)].pc = "entry"
    /\ mflag' = PrologueMode(mfuncs[mstack[Len(mstack)].fn], mflag)
    /\ mstack' = [mstack EXCEPT ![Len(mstack)].pc = "body"]
    /\ UNCHANGED <<mfuncs, mobs>>
    /\ UNCHANGED NotMode

\* Any return path of the running body, early returns included.
MReturn ==
    /\ mstack # <<>>
    /\ mstack[Len(mstack)].pc = "body"
    /\ LET fr == mstack[Len(mstack)]
           after == EpilogueMode(mfuncs[fr.fn], mflag)
       IN  /\ mflag' = after
           /\ mobs' = <<[fn |-> fr.fn, callee |-> InferMode(mfuncs[fr.fn]),
                         before |-> fr.before, after |-> after]>>
    /\ mstack' = SubSeq(mstack, 1, Len(mstack) - 1)
    /\ UNCHANGED mfuncs
    /\ UNCHANGED NotMode

ModeNext ==
    \/ \E f \in Funcs : MCall(f)
    \/ MPrologue
    \/ MReturn

InitMode == ModeInit /\ FixIdle /\ TraitIdle /\ MatchIdle /\ CallIdle /\ LaterIdle

SpecMode == InitMode /\ [][ModeNext]_vars

\* C1: mode symmetry -- for every function, every caller mode and every return
\* path, the accumulator mode right after a call returns equals the mode right
\* before the call, for any nesting of calls.
ModeSymmetry == mobs # <<>> => mobs[1].after = mobs[1].before

\* C23: the body of every function executes in the function's inferred
\* accumulator mode (m16 exactly when it declares `@ A: u16`, m8 otherwise),
\* whatever the mode of its caller.
BodyRunsInInferredMode ==
    (mstack # <<>> /\ mstack[Len(mstack)].pc = "body") =>
        mflag = InferMode(mfuncs[mstack[Len(mstack)].fn])

(***************************************************************************)
(* Branch fixup: the post-optimization pass that rewrites conditional      *)
(* branches whose target is more than 127 bytes away.                      *)
(***************************************************************************)
NumPoints   == 2      \* label positions 0..NumPoints, code between them

BranchRange == 127    \* "fix branches that exceed +/-127 bytes"
OffsetMin   == -128   \* the hardware offset is an 8-bit signed number
OffsetMax   == 127
BranchSize  == 2      \* opcode + 8-bit offset
JmpSize     == 3      \* opcode + 16-bit absolute address

CCs == {"BEQ", "BNE", "BCC", "BCS", "BMI", "BPL", "BVC", "BVS"}
CondPairs == {{"BEQ", "BNE"}, {"BCC", "BCS"}, {"BMI", "BPL"}, {"BVC", "BVS"}}
Flags == [z : BOOLEAN, c : BOOLEAN, n : BOOLEAN, v : BOOLEAN]
\* The two flag settings the branches are run under: all clear, all set.
RunFlags == {fl \in Flags : fl.c = fl.z /\ fl.n = fl.z /\ fl.v = fl.z}

\* When the hardware takes a conditional branch.
Taken(cc, fl) ==
    CASE cc = "BEQ" -> fl.z
      [] cc = "BNE" -> ~fl.z
      [] cc = "BCC" -> ~fl.c
      [] cc = "BCS" -> fl.c
      [] cc = "BMI" -> fl.n
      [] cc = "BPL" -> ~fl.n
      [] cc = "BVC" -> ~fl.v
      [] cc = "BVS" -> fl.v

\* A table with one slip: BMI is left as it is.
InvertSlip(cc) ==
    CASE cc = "BEQ" -> "BNE" [] cc = "BNE" -> "BEQ"
      [] cc = "BCC" -> "BCS" [] cc = "BCS" -> "BCC"
      [] cc = "BMI" -> "BMI" [] cc = "BPL" -> "BMI"
      [] cc = "BVC" -> "BVS" [] cc = "BVS" -> "BVC"

\* The branch inversion table.
Invert(cc) ==
    CASE cc = "BEQ" -> "BNE" [] cc = "BNE" -> "BEQ"
      [] cc = "BCC" -> "BCS" [] cc = "BCS" -> "BCC"
      [] cc = "BMI" -> "BPL" [] cc = "BPL" -> "BMI"
      [] cc = "BVC" -> "BVS" [] cc = "BVS" -> "BVC"

\* Instructions and labels.  id is the item's index in the list handed to the
\* pass and 0 for what the pass inserts.
Lbl(name)     == [k |-> "lbl",  id |-> 0, cc |-> "",  tgt |-> name, n |-> 0]
Br(cc, name)  == [k |-> "br",   id |-> 0, cc |-> cc,  tgt |-> name, n |-> 0]
Jmp(name)     == [k |-> "jmp",  id |-> 0, cc |-> "",  tgt |-> name, n |-> 0]
Code(n)       == [k |-> "code", id |-> 0, cc |-> "",  tgt |-> <<"", 0>>, n |-> n]
SrcLabel(p)   == <<"L", p>>
SkipLabel(n)  == <<"__branch_skip", n>>

Size(it) ==
    CASE it.k = "br"   -> BranchSize
      [] it.k = "jmp"  -> JmpSize
      [] it.k = "lbl"  -> 0
      [] it.k = "code" -> it.n

RECURSIVE Addr(_, _)
\* Byte address of item i: the sizes of the items before it.
Addr(prog, i) == IF i <= 1 THEN 0 ELSE Addr(prog, i - 1) + Size(prog[i - 1])

LabelIdx(prog, name) ==
    CHOOSE i \in DOMAIN prog : prog[i].k = "lbl" /\ prog[i].tgt = name

\* The distance the branch at i has to encode: from the instruction after the
\* branch to the target label.
Distance(prog, i) ==
    Addr(prog, LabelIdx(prog, prog[i].tgt)) - (Addr(prog, i) + BranchSize)

TooFar(d) == d > BranchRange \/ d < 0 - BranchRange
Encodable(d) == d >= OffsetMin /\ d <= OffsetMax

\* The branches the pass finds out of range on the list it is given.
FarBranches(prog) ==
    {i \in DOMAIN prog : prog[i].k = "br" /\ TooFar(Distance(prog, i))}

RECURSIVE Rewrite(_, _, _, _)
\* Items i.. of prog with every branch in far replaced by
\*     B<inverted> __branch_skip_k ; JMP target ; __branch_skip_k:
Rewrite(prog, far, i, k) ==
    IF i > Len(prog) THEN <<>>
    ELSE IF i \in far
         THEN << [prog[i] EXCEPT !.cc = Invert(prog[i].cc), !.tgt = SkipLabel(k)],
                 Jmp(prog[i].tgt),
                 Lbl(SkipLabel(k)) >> \o Rewrite(prog, far, i + 1, k + 1)
         ELSE <<prog[i]>> \o Rewrite(prog, far, i + 1, k)

\* The fixup pass: calculate the actual distances, then fix the branches that
\* exceed the range.
FixupPass(prog) == Rewrite(prog, FarBranches(prog), 1, 0)

\* ---- the instruction lists the pass is run on ----
Points   == 0..(NumPoints - 1)
GapSizes == {0, BranchRange - BranchSize}
NoBranch == <<"", 0>>

RECURSIVE Layout(_, _, _)
Layout(brs, gaps, p) ==
    IF p >= NumPoints THEN <<Lbl(SrcLabel(NumPoints))>>
    ELSE <<Lbl(SrcLabel(p))>>
         \o (IF brs[p] = NoBranch THEN <<>>
             ELSE <<Br(brs[p][1], SrcLabel(brs[p][2]))>>)
         \o (IF gaps[p] = 0 THEN <<>> ELSE <<Code(gaps[p])>>)
         \o Layout(brs, gaps, p + 1)

WithIds(prog) == [i \in DOMAIN prog |-> [prog[i] EXCEPT !.id = i]]

FixInit ==
    /\ \E pair \in CondPairs :
         \E brs \in [Points -> {NoBranch} \cup (pair \X (0..NumPoints))] :
           \E gaps \in [Points -> GapSizes] :
             forig = WithIds(Layout(brs, gaps, 0))
    /\ fprog = <<>>
    /\ fphase = "emitted"
    /\ fprobe = <<>>

\* Step 3 of code generation: the branch fixup pass.
BranchFixup ==
    /\ fphase = "emitted"
    /\ fprog' = FixupPass(forig)
    /\ fphase' = "fixed"
    /\ UNCHANGED <<forig, fprobe>>
    /\ UNCHANGED NotFix

\* ---- running a branch before and after the pass ----
EndId == Len(forig) + 1

RECURSIVE Land(_, _)
\* The first instruction of the original list that control reaches from item
\* idx of prog, passing over what the pass inserted.
Land(prog, idx) ==
    IF idx > Len(prog) THEN EndId
    ELSE IF prog[idx].id # 0 THEN prog[idx].id
    ELSE IF prog[idx].k = "jmp" THEN Land(prog, LabelIdx(prog, prog[idx].tgt))
    ELSE Land(prog, idx + 1)

IdxOfId(prog, id) == CHOOSE j \in DOMAIN prog : prog[j].id = id

\* Where the branch with the given id goes under flags fl.
BranchLands(prog, id, fl) ==
    LET j == IdxOfId(prog, id)
    IN  IF Taken(prog[j].cc, fl)
        THEN Land(prog, LabelIdx(prog, prog[j].tgt))
        ELSE Land(prog, j + 1)

ExecBranch(i, fl) ==
    /\ fphase = "fixed"
    /\ forig[i].k = "br"
    /\ fprobe' = << [id |-> i,
                     taken |-> Taken(forig[i].cc, fl),
                     rewritten |-> fprog[IdxOfId(fprog, i)].cc # forig[i].cc,
                     landOrig |-> BranchLands(forig, i, fl),
                     landNew |-> BranchLands(fprog, i, fl)] >>
    /\ UNCHANGED <<forig, fprog, fphase>>
    /\ UNCHANGED NotFix

FixNext ==
    \/ BranchFixup
    \/ \E i \in DOMAIN forig, fl \in RunFlags : ExecBranch(i, fl)

InitFix == ModeIdle /\ FixInit /\ TraitIdle /\ MatchIdle /\ CallIdle /\ LaterIdle

SpecFix == InitFix /\ [][FixNext]_vars

FixupPreservesControlFlow ==
    /\ \A cc \in CCs :
         /\ Invert(cc) \in CCs /\ Invert(Invert(cc)) = cc
         /\ \A fl \in Flags : Taken(Invert(cc), fl) = ~Taken(cc, fl)
    /\ fphase = "fixed" =>
         \A i \in DOMAIN forig : forig[i].k = "br" =>
            \A fl \in Flags :
               /\ BranchLands(fprog, i, fl) = BranchLands(forig, i, fl)
               /\ BranchLands(forig, i, fl) =
                     (IF Taken(forig[i].cc, fl)
                      THEN LabelIdx(forig, forig[i].tgt)
                      ELSE i + 1)
    /\ fprobe # <<>> => fprobe[1].landNew = fprobe[1].landOrig

\* A branch that the pass rewrote was run with its condition true.
RewrittenBranchTaken ==
    /\ fprobe # <<>>
    /\ fprobe[1].rewritten /\ fprobe[1].taken
    /\ fprobe[1].landNew = LabelIdx(forig, forig[fprobe[1].id].tgt)

(***************************************************************************)
(* Traits: TypeId assignment and the per-method dispatch tables.           *)
(***************************************************************************)
NumTypes  == 3        \* structs of the compilation unit
MaxImpls  == 3        \* impl blocks of the compilation unit
MaxTypeId == 255      \* TypeId is a u8, 0 is reserved

Types  == 1..NumTypes
Traits == {"Drawable", "Updatable", "Renderable"}

\* The methods a trait declares.
Methods(tr) ==
    CASE tr = "Drawable"   -> {"draw", "get_width"}
      [] tr = "Updatable"  -> {"update"}
      [] tr = "Renderable" -> {"render"}

\* A trait is entirely near or entirely far.
IsFar(tr) == tr = "Renderable"

TraitMethods == {tm \in Traits \X {"draw", "get_width", "update", "render"} :
                    tm[2] \in Methods(tm[1])}

TrapEntry == <<0, "_trait_error">>       \* .dw _trait_error / JML _trait_error
MethodEntry(ty, m) == <<ty, m>>          \* .dw Player__draw

Implements(log, ty, tr) == \E i \in DOMAIN log : log[i] = <<ty, tr>>
TraitsOf(log, ty) == {tr \in Traits : Implements(log, ty, tr)}

\* A struct cannot implement both near and far traits.
NearFarConflict(log, ty, tr) ==
    \E other \in TraitsOf(log, ty) : IsFar(other) # IsFar(tr)

\* A fresh TypeId at every impl block.
TagForFresh(ty) == nextId

\* The TypeId of the struct of an impl block: the one it has, or the next one.
TagFor(ty) == IF typeId[ty] # 0 THEN typeId[ty] ELSE nextId

TraitInit ==
    /\ typeId = [ty \in Types |-> 0]
    /\ nextId = 1
    /\ implLog = <<>>
    /\ tables = [tm \in TraitMethods |-> <<>>]
    /\ built = FALSE
    /\ lastDispatch = <<>>
    /\ terror = "none"

\* The limit is taken one too high.
TagSpaceExhaustedOffByOne(ty) == TagFor(ty) > MaxTypeId + 1

\* More than 255 distinct types with trait implementations.
TagSpaceExhausted(ty) == TagFor(ty) > MaxTypeId

\* `impl tr for ty { ... }` is processed, in declaration order.
ImplBlock(ty, tr) ==
    /\ ~built
    /\ ~Implements(implLog, ty, tr)
    /\ IF NearFarConflict(implLog, ty, tr)
       THEN /\ terror' = "near_far_conflict"
            /\ UNCHANGED <<typeId, nextId, implLog>>
       ELSE IF TagSpaceExhausted(ty)
       THEN /\ terror' = "too_many_types"
            /\ UNCHANGED <<typeId, nextId, implLog>>
       ELSE /\ typeId' = [typeId EXCEPT ![ty] = TagFor(ty)]
            /\ nextId' = IF TagFor(ty) = nextId THEN nextId + 1 ELSE nextId
            /\ implLog' = Append(implLog, <<ty, tr>>)
            /\ UNCHANGED terror
    /\ UNCHANGED <<tables, built, lastDispatch>>
    /\ UNCHANGED NotTrait

ProcessImpl(ty, tr) == Len(implLog) < MaxImpls /\ ImplBlock(ty, tr)

MaxOf(S) == IF S = {} THEN 0 ELSE CHOOSE x \in S : \A y \in S : y <= x

\* One entry per implementing type behind the trap entry.
TableLengthByCount(tags) == Cardinality(tags) + 1

\* Entries for TypeId 0 through the largest TypeId of the trait.
TableLength(tags) == MaxOf(tags) + 1

\* What the table holds at a TypeId whose struct does not implement the trait.
GapEntry == TrapEntry

\* The implementers listed one after the other behind the trap entry.
BuildTablePacked(tr, m) ==
    LET tags == {typeId[ty] : ty \in {t \in Types : Implements(implLog, t, tr)}}
        Nth(S, k) == CHOOSE x \in S : Cardinality({y \in S : y < x}) = k - 1
    IN  [i \in 1..(Cardinality(tags) + 1) |->
            IF i = 1 THEN TrapEntry
            ELSE MethodEntry(CHOOSE ty \in Types : typeId[ty] = Nth(tags, i - 1), m)]

\* The table of one trait method: one entry per TypeId, from 0 (kept at
\* position 1 of the sequence) to the trait's largest TypeId.
BuildTable(tr, m) ==
    LET impls == {ty \in Types : Implements(implLog, ty, tr)}
    IN  [i \in 1..TableLength({typeId[ty] : ty \in impls}) |->
            IF \E ty \in impls : typeId[ty] = i - 1
            THEN MethodEntry(CHOOSE ty \in impls : typeId[ty] = i - 1, m)
            ELSE IF i = 1 THEN TrapEntry ELSE GapEntry]

\* Entry i of a table; reading past the table yields whatever follows it.
Entry(tbl, i) == IF i + 1 \in DOMAIN tbl THEN tbl[i + 1] ELSE <<0, "past_table">>

\* The tables are generated once every impl block has been seen.
BuildTables ==
    /\ ~built
    /\ tables' = [tm \in TraitMethods |-> BuildTable(tm[1], tm[2])]
    /\ built' = TRUE
    /\ UNCHANGED <<typeId, nextId, implLog, lastDispatch, terror>>
    /\ UNCHANGED NotTrait

\* obj.m() on a trait pointer to a struct ty: load the TypeId from offset 0,
\* index the method's table, jump.
Dispatch(ty, tr, m) ==
    /\ built
    /\ Implements(implLog, ty, tr)
    /\ m \in Methods(tr)
    /\ lastDispatch' = << [ty |-> ty, tr |-> tr, m |-> m, tag |-> typeId[ty],
                           target |-> Entry(tables[<<tr, m>>], typeId[ty])] >>
    /\ UNCHANGED <<typeId, nextId, implLog, tables, built, terror>>
    /\ UNCHANGED NotTrait

TraitNext ==
    \/ \E ty \in Types, tr \in Traits : ProcessImpl(ty, tr)
    \/ BuildTables
    \/ \E ty \in Types, tm \in TraitMethods : Dispatch(ty, tm[1], tm[2])

InitTrait == ModeIdle /\ FixIdle /\ TraitInit /\ MatchIdle /\ CallIdle /\ LaterIdle

SpecTrait == InitTrait /\ [][TraitNext]_vars

RECURSIVE FirstImplOrder(_, _)
\* The structs of the log in the order of their first impl block.
FirstImplOrder(log, seen) ==
    IF log = <<>> THEN <<>>
    ELSE IF Head(log)[1] \in seen THEN FirstImplOrder(Tail(log), seen)
    ELSE <<Head(log)[1]>> \o FirstImplOrder(Tail(log), seen \cup {Head(log)[1]})

\* C4: after any sequence of trait implementations the assigned tags are
\* exactly 1..n without gap or duplicate, in the order of each type's first
\* implementation; tag 0 is never assigned; a type that implements several
\* traits keeps the tag of its first implementation (write-once).
TagsDenseInFirstImplOrder ==
    /\ [](LET order == FirstImplOrder(implLog, {})
          IN  /\ \A i \in DOMAIN order : typeId[order[i]] = i
              /\ \A ty \in Types :
                    (\A i \in DOMAIN order : order[i] # ty) => typeId[ty] = 0
              /\ \A ty \in Types : TraitsOf(implLog, ty) # {} => typeId[ty] # 0)
    /\ [][\A ty \in Types : typeId[ty] # 0 => typeId'[ty] = typeId[ty]]_vars

\* A struct with two impl blocks, tagged 1 although it is not the first struct,
\* and another struct tagged after it.
TwoTraitsOneTag ==
    \E ty \in Types, other \in Types :
        /\ Cardinality(TraitsOf(implLog, ty)) = 2
        /\ typeId[ty] = 1 /\ ty # 1
        /\ typeId[other] = 2
        /\ implLog[Len(implLog)][1] = ty

\* C5: every (trait, method) dispatch table is indexed by tag -- entry 0 is
\* the error/trap destination and the entry at tag(X) is X's implementation
\* of the method, for every X implementing the trait; a dispatch lands on the
\* implementation of the object's type; the table does not change once built.
DispatchTableByTag ==
    /\ [](built =>
            /\ \A tm \in TraitMethods :
                 /\ Entry(tables[tm], 0) = TrapEntry
                 /\ \A ty \in Types : Implements(implLog, ty, tm[1]) =>
                        Entry(tables[tm], typeId[ty]) = MethodEntry(ty, tm[2])
            /\ lastDispatch # <<>> =>
                 lastDispatch[1].target
                    = MethodEntry(lastDispatch[1].ty, lastDispatch[1].m))
    /\ [][built => tables' = tables]_vars

\* Types A (1) then B (2) implement Drawable: the table of draw is
\* [error, A's draw, B's draw], and B's draw has been dispatched to.
TableOfAThenB ==
    /\ built
    /\ implLog = << <<1, "Drawable">>, <<2, "Drawable">> >>
    /\ tables[<<"Drawable", "draw">>]
          = <<TrapEntry, MethodEntry(1, "draw"), MethodEntry(2, "draw")>>
    /\ lastDispatch # <<>> /\ lastDispatch[1].target = MethodEntry(2, "draw")

TagsOf(tr) == {typeId[ty] : ty \in {t \in Types : Implements(implLog, t, tr)}}

MaxArms     == 4      \* arms of a match descriptor
MaxLit      == 2      \* literal patterns 0..MaxLit
MaxInt      == 15     \* the integer scrutinee takes the values 0..MaxInt
NumVariants == 3      \* variants of the enum scrutinee
ScenarioHi  == 15     \* the range arm 0..=15 of the documented example
FewArmsMax  == 3      \* the documented 2- and 3-arm matches are branch chains,
                      \* the documented 4-arm match is a table

ScrutineeTypes == {"int", "bool", "enum"}

ValuesOf(ty) ==
    CASE ty = "int"  -> 0..MaxInt
      [] ty = "bool" -> {0, 1}
      [] ty = "enum" -> 0..(NumVariants - 1)

\* Patterns.  An or-pattern holds its alternatives in alts.
Lit(v)          == [k |-> "lit",  lo |-> v, hi |-> v, alts |-> {}]
RangeIncl(a, b) == [k |-> "incl", lo |-> a, hi |-> b, alts |-> {}]
RangeExcl(a, b) == [k |-> "excl", lo |-> a, hi |-> b, alts |-> {}]
OrPat(S)        == [k |-> "or",   lo |-> 0, hi |-> 0, alts |-> S]
Wild            == [k |-> "wild", lo |-> 0, hi |-> 0, alts |-> {}]
Bind            == [k |-> "bind", lo |-> 0, hi |-> 0, alts |-> {}]

CatchPats == {Wild, Bind}
IsCatchAll(pat) == pat.k \in {"wild", "bind"}

NonCatchPats(ty) ==
    CASE ty = "int"  -> {Lit(v) : v \in 0..MaxLit}
                        \cup {RangeIncl(0, ScenarioHi), RangeExcl(1, 3),
                              OrPat({Lit(0), Lit(2)})}
      [] ty = "bool" -> {Lit(0), Lit(1)}
      [] ty = "enum" -> {Lit(v) : v \in 0..(NumVariants - 1)}

ConstModes == {"all", "none", "mixed"}
\* Whether the body of arm i is a compile-time constant.
ArmConst(cm, i) == cm = "all" \/ (cm = "mixed" /\ i # 1)

MatchInit ==
    /\ \E ty \in ScrutineeTypes, n \in 1..MaxArms, cm \in ConstModes :
         \E ps \in [1..n -> NonCatchPats(ty) \cup CatchPats] :
            /\ \A i \in 1..(n - 1) : ~IsCatchAll(ps[i])
            /\ desc = [ty |-> ty,
                       arms |-> [i \in 1..n |->
                                   [pat |-> ps[i], const |-> ArmConst(cm, i)]]]
    /\ mphase = "parsed"
    /\ emitted = [strategy |-> "none", tests |-> <<>>, base |-> 0,
                  table |-> <<>>, dflt |-> 0]
    /\ merror = "none"
    /\ mresult = <<>>

NoCode == [strategy |-> "none", tests |-> <<>>, base |-> 0,
           table |-> <<>>, dflt |-> 0]

MinOf(S) == CHOOSE x \in S : \A y \in S : x <= y

RECURSIVE ExpandRange(_, _)
\* The values lo, lo+1, ..., end-1.
ExpandRange(lo, end) ==
    IF lo >= end THEN {} ELSE {lo} \cup ExpandRange(lo + 1, end)

\* Expansion that takes every range as exclusive.
ExpandSimpleExcl(pat) ==
    CASE pat.k = "lit"  -> {pat.lo}
      [] pat.k = "incl" -> ExpandRange(pat.lo, pat.hi)
      [] pat.k = "excl" -> ExpandRange(pat.lo, pat.hi)
      [] OTHER          -> {}

\* A literal or range pattern expanded to its individual values.
ExpandSimple(pat) ==
    CASE pat.k = "lit"  -> {pat.lo}
      [] pat.k = "incl" -> ExpandRange(pat.lo, pat.hi + 1)
      [] pat.k = "excl" -> ExpandRange(pat.lo, pat.hi)
      [] OTHER          -> {}

Expand(pat) ==
    IF pat.k = "or" THEN UNION {ExpandSimple(a) : a \in pat.alts}
    ELSE ExpandSimple(pat)

\* The values the patterns of a descriptor list.
Covered(d) == UNION {Expand(d.arms[i].pat) : i \in DOMAIN d.arms}

HasCatchAll(d) == \E i \in DOMAIN d.arms : IsCatchAll(d.arms[i].pat)
HasOr(d)       == \E i \in DOMAIN d.arms : d.arms[i].pat.k = "or"
AllConst(d)    == \A i \in DOMAIN d.arms : d.arms[i].const
FewArms(d)     == Len(d.arms) <= FewArmsMax
Dense(S)       == S # {} /\ MaxOf(S) - MinOf(S) + 1 = Cardinality(S)

\* Exhaustiveness that accepts an integer match whose literals and ranges list
\* every value.
ExhaustiveByCoverage(d) ==
    \/ HasCatchAll(d)
    \/ ValuesOf(d.ty) \subseteq Covered(d)

\* bool: both values or a catch-all; enum: every variant or a catch-all;
\* integers: a wildcard or identifier pattern is required.
Exhaustive(d) ==
    \/ HasCatchAll(d)
    \/ d.ty \in {"bool", "enum"} /\ ValuesOf(d.ty) \subseteq Covered(d)

\* Selection that looks at density and constness only for or-free matches but
\* forgets the or-pattern fallback.
SelectStrategyNoOrRule(d) ==
    IF FewArms(d) \/ ~Dense(Covered(d)) THEN "branch_chain"
    ELSE IF AllConst(d) THEN "lookup_table"
    ELSE "jump_table"

\* Strategy selection: or-patterns and matches with few arms fall back to a
\* branch chain, sparse patterns too; otherwise a lookup table when all arm
\* bodies are constants and a jump table when they are not.
SelectStrategy(d) ==
    IF HasOr(d) \/ FewArms(d) \/ ~Dense(Covered(d)) THEN "branch_chain"
    ELSE IF AllConst(d) THEN "lookup_table"
    ELSE "jump_table"

\* The first arm that lists value v / the first catch-all arm (0: none).
FirstCover(d, v) ==
    LET C == {i \in DOMAIN d.arms : v \in Expand(d.arms[i].pat)}
    IN  IF C = {} THEN 0 ELSE MinOf(C)
FirstCatchAll(d) ==
    LET C == {i \in DOMAIN d.arms : IsCatchAll(d.arms[i].pat)}
    IN  IF C = {} THEN 0 ELSE MinOf(C)

\* The table of a lookup-table or jump-table strategy: one entry per value of
\* the dense range, values outside it go to the catch-all arm.
EmitTable(d, s) ==
    LET lo == MinOf(Covered(d))
        hi == MaxOf(Covered(d))
    IN  [strategy |-> s, tests |-> <<>>, base |-> lo,
         table |-> [i \in 1..(hi - lo + 1) |-> FirstCover(d, lo + i - 1)],
         dflt |-> FirstCatchAll(d)]

\* The branch chain: one comparison sequence per arm, in source order.
EmitChain(d) ==
    [strategy |-> "branch_chain",
     tests |-> [i \in DOMAIN d.arms |-> d.arms[i].pat],
     base |-> 0, table |-> <<>>, dflt |-> 0]

Emit(d) ==
    IF SelectStrategy(d) = "branch_chain" THEN EmitChain(d)
    ELSE EmitTable(d, SelectStrategy(d))

\* One pattern's comparisons: CMP #v / BNE next for a literal,
\* CMP #lo / BCC next / CMP #hi+1 / BCS next for a range.
SimpleTest(pat, v) ==
    CASE pat.k = "lit"  -> v = pat.lo
      [] pat.k = "incl" -> ~(v < pat.lo) /\ ~(v >= pat.hi + 1)
      [] pat.k = "excl" -> ~(v < pat.lo) /\ ~(v >= pat.hi)
      [] OTHER          -> TRUE

\* One arm's test: an or-pattern passes when one of its alternatives does, a
\* wildcard or identifier arm has no test.
TestPasses(pat, v) ==
    IF pat.k = "or" THEN \E a \in pat.alts : SimpleTest(a, v)
    ELSE SimpleTest(pat, v)

RECURSIVE ChainExecLast(_, _, _)
\* A chain in which a later passing test overrides an earlier one.
ChainExecLast(tests, v, i) ==
    IF i > Len(tests) THEN 0
    ELSE LET rest == ChainExecLast(tests, v, i + 1)
         IN  IF rest # 0 THEN rest
             ELSE IF TestPasses(tests[i], v) THEN i ELSE 0

RECURSIVE ChainExec(_, _, _)
\* Running the chain from arm i: the first arm whose test passes.
ChainExec(tests, v, i) ==
    IF i > Len(tests) THEN 0
    ELSE IF TestPasses(tests[i], v) THEN i
    ELSE ChainExec(tests, v, i + 1)

\* Running a table: a range check, then the indexed entry.
TableExec(code, v) ==
    IF v < code.base \/ v > code.base + Len(code.table) - 1 THEN code.dflt
    ELSE code.table[v - code.base + 1]

\* The arm the emitted code runs for scrutinee value v.
Exec(code, v) ==
    IF code.strategy = "branch_chain" THEN ChainExec(code.tests, v, 1)
    ELSE TableExec(code, v)

\* The match is compiled: exhaustiveness first, then the strategy.
Compile ==
    /\ mphase = "parsed"
    /\ IF Exhaustive(desc)
       THEN /\ emitted' = Emit(desc)
            /\ merror' = "none"
            /\ mphase' = "compiled"
       ELSE /\ emitted' = NoCode
            /\ merror' = "non_exhaustive"
            /\ mphase' = "rejected"
    /\ UNCHANGED <<desc, mresult>>
    /\ UNCHANGED NotMatch

RunValues == {0, 1, MaxLit + 1}

\* The emitted code runs on a scrutinee value.
Run(v) ==
    /\ mphase = "compiled"
    /\ v \in ValuesOf(desc.ty)
    /\ mresult' = <<[val |-> v, out |-> Exec(emitted, v)]>>
    /\ mphase' = "ran"
    /\ UNCHANGED <<desc, emitted, merror>>
    /\ UNCHANGED NotMatch

MatchNext ==
    \/ Compile
    \/ \E v \in RunValues : Run(v)

InitMatch == ModeIdle /\ FixIdle /\ TraitIdle /\ MatchInit /\ CallIdle /\ LaterIdle

SpecMatch == InitMatch /\ [][MatchNext]_vars
\* ---- what the claims about match compilation are stated with ----
Accepted == mphase \in {"compiled", "ran"}

\* The values some literal, range or or-pattern arm of the descriptor accepts.
ListedValues ==
    {v \in 0..MaxInt : \E i \in DOMAIN desc.arms :
        ~IsCatchAll(desc.arms[i].pat) /\ TestPasses(desc.arms[i].pat, v)}
Contiguous(S) == S # {} /\ \A a \in S, b \in S : \A x \in a..b : x \in S
SomeOr == \E i \in DOMAIN desc.arms : desc.arms[i].pat.k = "or"
EveryArmConst == \A i \in DOMAIN desc.arms : desc.arms[i].const
SomeArmConst  == \E i \in DOMAIN desc.arms : desc.arms[i].const

\* The first arm, in declaration order, whose pattern matches v (0: none).
FirstMatch(v) ==
    LET M == {i \in DOMAIN desc.arms :
                 IsCatchAll(desc.arms[i].pat) \/ TestPasses(desc.arms[i].pat, v)}
    IN  IF M = {} THEN 0 ELSE CHOOSE i \in M : \A j \in M : i <= j

\* C6 (as claimed): lookup table when the covered values are dense and every
\* arm outcome is a constant, jump table when dense and some outcome is not a
\* constant, branch chain when sparse or any or-pattern is present.
StrategyByDensityAndConstness ==
    Accepted =>
        /\ (Contiguous(ListedValues) /\ ~SomeOr /\ EveryArmConst)
              => emitted.strategy = "lookup_table"
        /\ (Contiguous(ListedValues) /\ ~SomeOr /\ ~EveryArmConst)
              => emitted.strategy = "jump_table"
        /\ (~Contiguous(ListedValues) \/ SomeOr)
              => emitted.strategy = "branch_chain"

\* C6 (amended): the table strategies are chosen only for matches with more
\* than three arms -- lookup table when dense, or-free, more than three arms
\* and all outcomes constant; jump table when dense, or-free, more than three
\* arms and some outcome not constant (a mix counts as not constant); branch
\* chain when sparse, when an or-pattern is present, or when the match has at
\* most three arms.
StrategyWithFewArmsRule ==
    Accepted =>
        LET tableable == /\ Contiguous(ListedValues) /\ ~SomeOr
                         /\ Len(desc.arms) > FewArmsMax
        IN  /\ (tableable /\ EveryArmConst) <=> emitted.strategy = "lookup_table"
            /\ (tableable /\ ~EveryArmConst) <=> emitted.strategy = "jump_table"
            /\ ~tableable <=> emitted.strategy = "branch_chain"

\* A dense or-free match of more than three arms with constant and
\* non-constant outcomes mixed was compiled to a jump table.
MixedArmsJumpTable ==
    /\ Accepted
    /\ emitted.strategy = "jump_table"
    /\ SomeArmConst /\ ~EveryArmConst

IsRangeScenario ==
    /\ desc.ty = "int"
    /\ desc.arms = << [pat |-> RangeIncl(0, ScenarioHi), const |-> FALSE],
                      [pat |-> Wild, const |-> FALSE] >>

\* C8 (as claimed): ranges are expanded before density analysis and the
\* example match 0..=15 => f(), _ => g() is compiled with the jump table.
RangeScenarioJumpTable ==
    (Accepted /\ IsRangeScenario) => emitted.strategy = "jump_table"

\* C8 (amended): a..=b is expanded to a through b and a..b to a through b-1
\* before density analysis, so range arms make a match of more than three
\* arms dense and give it a table strategy; the two-arm example
\* 0..=15 => f(), _ => g() is compiled as a branch chain.
RangeExpansionAndScenario ==
    Accepted =>
        /\ \A i \in DOMAIN desc.arms :
              LET pat == desc.arms[i].pat
              IN  /\ pat.k = "incl" => Expand(pat) = pat.lo..pat.hi
                  /\ pat.k = "excl" => Expand(pat) = pat.lo..(pat.hi - 1)
        /\ Covered(desc) = ListedValues
        /\ (/\ \E i \in DOMAIN desc.arms : desc.arms[i].pat.k \in {"incl", "excl"}
            /\ Contiguous(ListedValues) /\ ~SomeOr
            /\ Len(desc.arms) > FewArmsMax)
              => emitted.strategy \in {"lookup_table", "jump_table"}
        /\ IsRangeScenario => emitted.strategy = "branch_chain"

\* The example match was compiled, as a branch chain.
RangeScenarioCompiled ==
    Accepted /\ IsRangeScenario /\ emitted.strategy = "branch_chain"

\* C9: compilation proceeds only when exhaustiveness holds -- bool needs both
\* values or a catch-all, an enum every variant or a catch-all, an integer a
\* wildcard or identifier arm whatever is listed; otherwise the result is a
\* compile error and no dispatch code is emitted.
ExhaustivenessEnforced ==
    LET catchAll == \E i \in DOMAIN desc.arms : desc.arms[i].pat.k \in {"wild", "bind"}
        allListed == \A v \in ValuesOf(desc.ty) :
                        \E i \in DOMAIN desc.arms :
                           /\ desc.arms[i].pat.k \notin {"wild", "bind"}
                           /\ TestPasses(desc.arms[i].pat, v)
        required == catchAll \/ (desc.ty \in {"bool", "enum"} /\ allListed)
    IN  mphase # "parsed" =>
            /\ required <=> Accepted
            /\ Accepted => merror = "none" /\ emitted.strategy # "none"
            /\ ~required => /\ mphase = "rejected"
                            /\ merror = "non_exhaustive"
                            /\ emitted = NoCode
                            /\ mresult = <<>>

\* An integer match that lists every value but has no catch-all arm was
\* rejected.
FullIntCoverageRejected ==
    /\ mphase = "rejected"
    /\ desc.ty = "int"
    /\ \A v \in ValuesOf("int") : FirstMatch(v) # 0

(***************************************************************************)
(* Near and far calls: the cross-bank call rule.                           *)
(***************************************************************************)
MaxBank == 1          \* banks 0..MaxBank

Banks == 0..MaxBank

\* A rule that looks at the banks only.
CallAllowedSameBankOnly(caller, callee) == caller.bank = callee.bank

\* Cross-bank call rules: a far fn is callable from any bank, a (near) fn only
\* from its own bank.
CallAllowed(caller, callee) == callee.far \/ caller.bank = callee.bank

CallInit ==
    /\ cfuncs \in [Funcs -> [bank : Banks, far : BOOLEAN]]
    /\ callCheck = <<>>

\* The compiler checks one call site; whether the site can be reached at run
\* time plays no part.
CheckCall(c, d, reachable) ==
    /\ callCheck' = << [caller |-> c, callee |-> d, reachable |-> reachable,
                        verdict |-> IF CallAllowed(cfuncs[c], cfuncs[d])
                                    THEN "ok" ELSE "compile_error"] >>
    /\ UNCHANGED cfuncs
    /\ UNCHANGED NotCall

CallNext == \E c \in Funcs, d \in Funcs, r \in BOOLEAN : CheckCall(c, d, r)

InitCall == ModeIdle /\ FixIdle /\ TraitIdle /\ MatchIdle /\ CallInit /\ LaterIdle

SpecCall == InitCall /\ [][CallNext]_vars

\* C10: a call is accepted if and only if the callee is far, or the callee is
\* near and caller and callee are declared in the same bank; a near call
\* across banks is a compile error whether or not the call site is reachable,
\* and the verdict is given when the call is checked.
NearCallsStayInBank ==
    callCheck # <<>> =>
        LET cc == callCheck[1]
            caller == cfuncs[cc.caller]
            callee == cfuncs[cc.callee]
        IN  /\ cc.verdict \in {"ok", "compile_error"}
            /\ cc.verdict = "ok" <=>
                  (callee.far \/ (~callee.far /\ caller.bank = callee.bank))
            /\ (~callee.far /\ caller.bank # callee.bank)
                  => cc.verdict = "compile_error"

\* A near function was called from another bank at an unreachable call site,
\* and the call was rejected.
UnreachableCrossBankNearCall ==
    /\ callCheck # <<>>
    /\ ~callCheck[1].reachable
    /\ ~cfuncs[callCheck[1].callee].far
    /\ cfuncs[callCheck[1].caller].bank # cfuncs[callCheck[1].callee].bank
    /\ callCheck[1].verdict = "compile_error"

(***************************************************************************)
(* Short-circuit evaluation of && and || as branch cascades.               *)
(***************************************************************************)
MaxOperands == 3

LogicOps == {"and", "or"}
OperandKinds == {"call", "load"}     \* JSR check_a  /  LDA a

Conditions ==
    UNION { [op : LogicOps, n : {n}, kind : [1..n -> OperandKinds]]
            : n \in 1..MaxOperands }

\* Labels of the lowered `if cond { execute(); }`.
LabelAddr(e, l) ==
    CASE l = "do_execute" -> 2 * e.n + 1
      [] l = "skip"       -> 2 * e.n + 2

\* Every operand is followed by an early exit to skip.
OperandBranchAndOnly(e, i) == [k |-> "beq", tgt |-> "skip"]

\* The branch emitted after operand i: && leaves for skip when the operand is
\* false; || leaves for do_execute when it is true, and its last operand
\* skips the body when false.
OperandBranch(e, i) ==
    IF e.op = "and" \/ i = e.n
    THEN [k |-> "beq", tgt |-> "skip"]
    ELSE [k |-> "bne", tgt |-> "do_execute"]

\* The instruction list: operand, branch, ..., JSR execute.
LowerCond(e) ==
    [j \in 1..(2 * e.n + 1) |->
        IF j = 2 * e.n + 1 THEN [k |-> "exec"]
        ELSE IF j % 2 = 1 THEN [k |-> "eval", i |-> (j + 1) \div 2]
        ELSE OperandBranch(e, j \div 2)]

SCInit ==
    /\ scExpr \in Conditions
    /\ scPc = 1
    /\ scZ = FALSE
    /\ scLog = <<>>
    /\ scExec = FALSE

SCRunning == scPc <= Len(LowerCond(scExpr))
SCInstr == LowerCond(scExpr)[scPc]

\* JSR check / LDA a: the operand yields true or false and sets Z.
SCEval(v) ==
    /\ SCRunning /\ SCInstr.k = "eval"
    /\ scLog' = Append(scLog, [i |-> SCInstr.i, val |-> v])
    /\ scZ' = ~v
    /\ scPc' = scPc + 1
    /\ UNCHANGED <<scExpr, scExec>>
    /\ UNCHANGED NotSC

\* BEQ branches when Z is set, BNE when it is clear.
SCBranch ==
    /\ SCRunning /\ SCInstr.k \in {"beq", "bne"}
    /\ scPc' = IF (SCInstr.k = "beq") = scZ
               THEN LabelAddr(scExpr, SCInstr.tgt)
               ELSE scPc + 1
    /\ UNCHANGED <<scExpr, scZ, scLog, scExec>>
    /\ UNCHANGED NotSC

\* JSR execute
SCExecute ==
    /\ SCRunning /\ SCInstr.k = "exec"
    /\ scExec' = TRUE
    /\ scPc' = scPc + 1
    /\ UNCHANGED <<scExpr, scZ, scLog>>
    /\ UNCHANGED NotSC

SCNext == (\E v \in BOOLEAN : SCEval(v)) \/ SCBranch \/ SCExecute

InitSC == CoreIdle /\ SCInit /\ LoopIdle /\ RAIdle /\ AbiIdle /\ IrqIdle /\ PresIdle /\ NeverIdle /\ DispIdle /\ ForIdle /\ CoalIdle /\ IdemIdle /\ FrameIdle

SpecSC == InitSC /\ [][SCNext]_vars

\* The value of an operand that lets evaluation go on: true under &&, false
\* under ||.
Continues(val) == val = (scExpr.op = "and")
SCDone == scPc = LabelAddr(scExpr, "skip")
Evaluated(i) == \E k \in 1..Len(scLog) : scLog[k].i = i

\* C11: operand i+1 of `a && b && ...` is evaluated exactly when every earlier
\* operand was true, and of `a || b || ...` exactly when every earlier one was
\* false; operands are evaluated in order and at most once, nothing is
\* evaluated after a deciding operand, and the body runs exactly when the
\* condition is true.
ShortCircuit ==
    /\ \A k \in 1..Len(scLog) :
          /\ scLog[k].i = k
          /\ \A j \in 1..(k - 1) : Continues(scLog[j].val)
    /\ SCDone =>
          /\ Len(scLog) >= 1
          /\ \A i \in 2..scExpr.n :
                Evaluated(i) <=> (Evaluated(i - 1) /\ Continues(scLog[i - 1].val))
          /\ scExec <=>
                IF scExpr.op = "and"
                THEN Len(scLog) = scExpr.n /\ scLog[scExpr.n].val
                ELSE scLog[Len(scLog)].val

\* A chain of three calls finished with the second call deciding the result:
\* the third call never happened.
ThirdCallSkipped ==
    /\ SCDone
    /\ scExpr.n = 3 /\ scExpr.kind[3] = "call"
    /\ Len(scLog) = 2 /\ Continues(scLog[1].val) /\ ~Continues(scLog[2].val)

(***************************************************************************)
(* Loops: labels, break and continue targets, break values.                *)
(***************************************************************************)
MaxNest == 2          \* loops nested inside one another

LoopLabels == {"a", "b"}
ValueTypes == {"u8", "u16"}

\* Loop nests, outermost first; a label names at most one loop of the nest.
Nests ==
    UNION { { nest \in [1..d -> [label : LoopLabels \cup {None}]] :
                \A i \in 1..d, j \in 1..d :
                   (i # j /\ nest[i].label # None)
                       => nest[i].label # nest[j].label }
            : d \in 0..MaxNest }

\* break; break 'l; break v; break 'l v; continue; continue 'l -- written
\* inside the loops 1..depth of the nest.
JumpStmts(nest) ==
    [op : {"break"}, label : LoopLabels \cup {None},
     val : ValueTypes \cup {None}, depth : 0..Len(nest)]
    \cup
    [op : {"continue"}, label : LoopLabels \cup {None},
     val : {None}, depth : 0..Len(nest)]

\* The body holds a first and a second jump statement.
JumpIdx == 1..2

LoopInit ==
    /\ lnest \in Nests
    /\ ljumps \in [JumpIdx -> JumpStmts(lnest)]
    /\ lphase = "parsed"
    /\ lcode = <<>>
    /\ lerror = None
    /\ lprobe = <<>>

MaxOfSet(S) == CHOOSE x \in S : \A y \in S : y <= x

\* A label is looked up among all the loops of the function.
ResolveAnyLoop(nest, st) ==
    IF st.label = None
    THEN IF st.depth = 0 THEN [ok |-> FALSE, err |-> "outside_loop"]
         ELSE [ok |-> TRUE, loop |-> st.depth]
    ELSE LET named == {k \in 1..Len(nest) : nest[k].label = st.label}
         IN  IF named = {} THEN [ok |-> FALSE, err |-> "label"]
             ELSE [ok |-> TRUE, loop |-> MaxOfSet(named)]

\* The loop a break or continue refers to: the innermost enclosing loop, or
\* the enclosing loop that carries the label.
Resolve(nest, st) ==
    IF st.label = None
    THEN IF st.depth = 0 THEN [ok |-> FALSE, err |-> "outside_loop"]
         ELSE [ok |-> TRUE, loop |-> st.depth]
    ELSE LET named == {k \in 1..st.depth : nest[k].label = st.label}
         IN  IF named = {} THEN [ok |-> FALSE, err |-> "label"]
             ELSE [ok |-> TRUE, loop |-> MaxOfSet(named)]

\* break -> JMP loop_end, continue -> JMP loop_start, of the resolved loop.
LowerJump(nest, st) ==
    [k |-> "JMP",
     tgt |-> [loop |-> Resolve(nest, st).loop,
              at |-> IF st.op = "break" THEN "loop_end" ELSE "loop_start"]]

BreaksOf(nest, jumps, k) ==
    {i \in 1..Len(jumps) :
        /\ jumps[i].op = "break"
        /\ Resolve(nest, jumps[i]).ok
        /\ Resolve(nest, jumps[i]).loop = k}

\* Only the types of the values are compared.
BreakValuesOkTypesOnly(nest, jumps, k) ==
    \A i \in BreaksOf(nest, jumps, k), j \in BreaksOf(nest, jumps, k) :
        (jumps[i].val # None /\ jumps[j].val # None)
            => jumps[i].val = jumps[j].val

\* All break statements of a loop expression provide a value of the same type.
BreakValuesOk(nest, jumps, k) ==
    \A i \in BreaksOf(nest, jumps, k), j \in BreaksOf(nest, jumps, k) :
        jumps[i].val # None => jumps[j].val = jumps[i].val

MinOfSet(S) == CHOOSE x \in S : \A y \in S : x <= y

LoopError(nest, jumps) ==
    LET bad == {i \in 1..Len(jumps) : ~Resolve(nest, jumps[i]).ok}
    IN  IF bad # {} THEN Resolve(nest, jumps[MinOfSet(bad)]).err
        ELSE IF \E k \in 1..Len(nest) : ~BreakValuesOk(nest, jumps, k)
             THEN "break_value"
             ELSE None

\* The compiler checks and lowers the jumps of the function body.
LowerLoops ==
    /\ lphase = "parsed"
    /\ lerror' = LoopError(lnest, ljumps)
    /\ IF LoopError(lnest, ljumps) = None
       THEN /\ lphase' = "lowered"
            /\ lcode' = [i \in 1..Len(ljumps) |-> LowerJump(lnest, ljumps[i])]
       ELSE /\ lphase' = "rejected"
            /\ lcode' = <<>>
    /\ UNCHANGED <<lnest, ljumps, lprobe>>
    /\ UNCHANGED NotLoop

\* The emitted JMP of statement i is executed.
TakeJump(i) ==
    /\ lphase = "lowered"
    /\ lprobe' = << [stmt |-> i, landed |-> lcode[i].tgt] >>
    /\ UNCHANGED <<lnest, ljumps, lphase, lcode, lerror>>
    /\ UNCHANGED NotLoop

LoopNext == LowerLoops \/ \E i \in JumpIdx : TakeJump(i)

InitLoop == CoreIdle /\ SCIdle /\ LoopInit /\ RAIdle /\ AbiIdle /\ IrqIdle /\ PresIdle /\ NeverIdle /\ DispIdle /\ ForIdle /\ CoalIdle /\ IdemIdle /\ FrameIdle

SpecLoop == InitLoop /\ [][LoopNext]_vars

\* Loop k is the one statement st refers to.
Names(st, k) ==
    /\ k \in 1..st.depth
    /\ IF st.label = None THEN k = st.depth ELSE lnest[k].label = st.label
Resolvable(st) == \E k \in 1..Len(lnest) : Names(st, k)
AllResolvable == \A i \in 1..Len(ljumps) : Resolvable(ljumps[i])
BreaksAt(k) ==
    {i \in 1..Len(ljumps) : ljumps[i].op = "break" /\ Names(ljumps[i], k)}
MixedBreaks(k) ==
    \E i \in BreaksAt(k), j \in BreaksAt(k) :
        ljumps[i].val # None /\ ljumps[j].val # ljumps[i].val

\* C12: in an accepted function, if any break that targets a loop carries a
\* value then every break that targets it carries a value of that one type; a
\* loop that mixes `break v` with a bare `break`, or values of two types, is
\* rejected with a compile error.
BreakValuesAgree ==
    /\ lphase = "lowered" => \A k \in 1..Len(lnest) : ~MixedBreaks(k)
    /\ (lphase # "parsed" /\ AllResolvable
          /\ \E k \in 1..Len(lnest) : MixedBreaks(k))
         => (lphase = "rejected" /\ lerror = "break_value")

\* `break 'a v` in the inner loop and a bare `break` of the outer loop 'a:
\* rejected.
LabelledValueWithBareBreak ==
    /\ lphase = "rejected" /\ lerror = "break_value"
    /\ Len(lnest) = 2 /\ lnest[1].label = "a"
    /\ ljumps[1] = [op |-> "break", label |-> "a", val |-> "u8", depth |-> 2]
    /\ ljumps[2] = [op |-> "break", label |-> None, val |-> None, depth |-> 1]

\* C13: every break of an accepted function jumps to the exit of the innermost
\* enclosing loop, or of the enclosing loop with its label, and every continue
\* to that loop's head; a label that names no enclosing loop, and a break or
\* continue outside any loop, are compile errors.
JumpsResolveToEnclosingLoop ==
    /\ lphase = "lowered" =>
          \A i \in 1..Len(ljumps) :
             /\ lcode[i].k = "JMP"
             /\ Names(ljumps[i], lcode[i].tgt.loop)
             /\ lcode[i].tgt.at =
                   (IF ljumps[i].op = "break" THEN "loop_end" ELSE "loop_start")
    /\ (lphase # "parsed" /\ ~AllResolvable) =>
          (lphase = "rejected" /\ lerror \in {"label", "outside_loop"})
    /\ lprobe # <<>> =>
          Names(ljumps[lprobe[1].stmt], lprobe[1].landed.loop)

\* `break 'a` written in the inner loop left the outer loop 'a, and the other
\* statement, an unlabeled continue, stays in the inner loop.
BreakOuterFromInner ==
    /\ lprobe # <<>> /\ lprobe[1].stmt = 1
    /\ Len(lnest) = 2 /\ lnest[1].label = "a"
    /\ ljumps[1].op = "break" /\ ljumps[1].label = "a" /\ ljumps[1].depth = 2
    /\ lprobe[1].landed = [loop |-> 1, at |-> "loop_end"]
    /\ ljumps[2].op = "continue" /\ ljumps[2].label = None
    /\ lcode[2].tgt = [loop |-> 2, at |-> "loop_start"]

(***************************************************************************)
(* Register and slot allocation: hardware coalescence, the scratch pool,   *)
(* the stack fallback and the caller-save rule for scratch registers.      *)
(***************************************************************************)
MaxBody  == 5         \* instructions of the function body
NumVRegs == 3         \* virtual registers of the function
MaxPool  == 1         \* scratch registers the program declares

HwRegs == {"A", "X"}
VRegs == 1..NumVRegs
Junk == 0             \* what a clobbered location holds

\* MIR of a body: an operation that leaves its result (a VReg) in a hardware
\* register, a use of a VReg, a call.
RInstrs ==
    [op : {"def"}, v : VRegs, reg : HwRegs]
    \cup [op : {"use"}, v : VRegs, reg : {None}]
    \cup [op : {"call"}, v : {0}, reg : {None}]

DefsOf(b, v) == {i \in 1..Len(b) : b[i].op = "def" /\ b[i].v = v}
UsesOf(b, v) == {i \in 1..Len(b) : b[i].op = "use" /\ b[i].v = v}
Defined(b) == {v \in VRegs : DefsOf(b, v) # {}}
DefIdx(b, v) == CHOOSE i \in DefsOf(b, v) : TRUE
LastUse(b, v) == MaxOfSet(UsesOf(b, v) \cup {DefIdx(b, v)})
RegOf(b, v) == b[DefIdx(b, v)].reg

\* VRegs are single-assignment, used only after their definition, and
\* numbered in definition order.
WellFormedBody(b) ==
    /\ \A v \in VRegs : Cardinality(DefsOf(b, v)) <= 1
    /\ \A v \in VRegs : \A u \in UsesOf(b, v) :
          v \in Defined(b) /\ DefIdx(b, v) < u
    /\ \A v \in Defined(b), w \in Defined(b) :
          v < w => DefIdx(b, v) < DefIdx(b, w)
    /\ \A v \in Defined(b) : \A w \in 1..v : w \in Defined(b)

Bodies ==
    UNION { {b \in [1..n -> RInstrs] : WellFormedBody(b)} : n \in 1..MaxBody }

RAInit ==
    /\ rbody \in Bodies
    /\ rpool \in 0..MaxPool
    /\ ralloc = <<>>
    /\ rphase = "mir"
    /\ rerror = None
    /\ rpc = 1
    /\ rmem = <<>>
    /\ robs = <<>>

Hw(r) == [kind |-> "hw", at |-> r]
Scratch(n) == [kind |-> "scratch", at |-> n]
Stack(n) == [kind |-> "stack", at |-> n]
Locations ==
    {Hw(r) : r \in HwRegs} \cup {Scratch(n) : n \in 0..(MaxPool - 1)}
        \cup {Stack(n) : n \in 0..(NumVRegs - 1)}

\* Live range of a VReg: from its definition to its last use.
LiveAt(b, v, i) == DefIdx(b, v) <= i /\ i <= LastUse(b, v)
Overlap(b, v, w) == \E i \in 1..Len(b) : LiveAt(b, v, i) /\ LiveAt(b, w, i)

\* An operation that overwrites hardware register r: another result left in
\* r, or a call (all registers are caller-save).
Clobbers(ins, r) == (ins.op = "def" /\ ins.reg = r) \/ ins.op = "call"

\* Every VReg stays in the register that produced it.
CoalesceableAlways(b, v) == TRUE

\* Pass 1: the hardware register is unclobbered between definition and last
\* use.  There are no moves in this MIR for pass 2 to treat as no-ops.
Coalesceable(b, v) ==
    \A j \in (DefIdx(b, v) + 1)..LastUse(b, v) : ~Clobbers(b[j], RegOf(b, v))

\* Any scratch register will do.
FreeScratchAny(b, pool, prev, v) == 0..(pool - 1)

\* Scratch registers of the pool that hold no VReg whose live range overlaps
\* that of v.
FreeScratch(b, pool, prev, v) ==
    {s \in 0..(pool - 1) :
        \A w \in 1..Len(prev) : prev[w] = Scratch(s) => ~Overlap(b, w, v)}

\* A VReg that finds no scratch register is left without a location.
ChooseLocationNoFallback(b, v, free, nstack) ==
    IF Coalesceable(b, v) THEN Hw(RegOf(b, v))
    ELSE IF free # {} THEN Scratch(MinOfSet(free))
    ELSE [kind |-> "unallocated", at |-> 0]

\* The location of one VReg: the hardware register when coalesceable, else a
\* scratch register, else (no scratch space available) a new stack slot.
ChooseLocation(b, v, free, nstack) ==
    IF Coalesceable(b, v) THEN Hw(RegOf(b, v))
    ELSE IF free # {} THEN Scratch(MinOfSet(free))
    ELSE Stack(nstack)

RECURSIVE AllocUpTo(_, _, _)
\* Physical locations of the VRegs 1..k.
AllocUpTo(b, pool, k) ==
    IF k = 0 THEN <<>>
    ELSE LET prev == AllocUpTo(b, pool, k - 1)
             free == FreeScratch(b, pool, prev, k)
             onStack == {w \in 1..Len(prev) : prev[w].kind = "stack"}
         IN  Append(prev, ChooseLocation(b, k, free, Cardinality(onStack)))

AllocOf(b, pool) == AllocUpTo(b, pool, Cardinality(Defined(b)))

\* Nothing is checked.
UsedAfterCallNone(b, alloc) == {}

\* Scratch-allocated VRegs that are used after a function call.
UsedAfterCall(b, alloc) ==
    {v \in 1..Len(alloc) :
        /\ alloc[v].kind = "scratch"
        /\ \E u \in UsesOf(b, v) :
              \E c \in (DefIdx(b, v) + 1)..(u - 1) : b[c].op = "call"}

\* Slot allocation and register allocation of one function.
Allocate ==
    /\ rphase = "mir"
    /\ LET alloc == AllocOf(rbody, rpool)
       IN  IF UsedAfterCall(rbody, alloc) = {}
           THEN /\ rphase' = "allocated"
                /\ ralloc' = alloc
                /\ rerror' = None
                /\ rmem' = [l \in Locations |-> Junk]
           ELSE /\ rphase' = "rejected"
                /\ ralloc' = <<>>
                /\ rerror' = "scratch_after_call"
                /\ rmem' = <<>>
    /\ UNCHANGED <<rbody, rpool, rpc, robs>>
    /\ UNCHANGED NotRA

RRunning == rphase = "allocated" /\ rpc <= Len(rbody)

\* The operation leaves its result in its hardware register; the result is
\* stored to the VReg's location when that is a memory slot.
ExecDef ==
    /\ RRunning /\ rbody[rpc].op = "def"
    /\ rmem' = [rmem EXCEPT ![Hw(rbody[rpc].reg)] = rbody[rpc].v,
                            ![ralloc[rbody[rpc].v]] = rbody[rpc].v]
    /\ rpc' = rpc + 1
    /\ UNCHANGED <<rbody, rpool, ralloc, rphase, rerror, robs>>
    /\ UNCHANGED NotRA

\* The VReg is read from its location.
ExecUse ==
    /\ RRunning /\ rbody[rpc].op = "use"
    /\ robs' = << [at |-> rpc, v |-> rbody[rpc].v,
                   got |-> rmem[ralloc[rbody[rpc].v]]] >>
    /\ rpc' = rpc + 1
    /\ UNCHANGED <<rbody, rpool, ralloc, rphase, rerror, rmem>>
    /\ UNCHANGED NotRA

\* The callee may clobber every hardware register and every scratch register.
ExecCall ==
    /\ RRunning /\ rbody[rpc].op = "call"
    /\ rmem' = [l \in Locations |->
                   IF l.kind \in {"hw", "scratch"} THEN Junk ELSE rmem[l]]
    /\ rpc' = rpc + 1
    /\ UNCHANGED <<rbody, rpool, ralloc, rphase, rerror, robs>>
    /\ UNCHANGED NotRA

RANext == Allocate \/ ExecDef \/ ExecUse \/ ExecCall

InitRA == CoreIdle /\ SCIdle /\ LoopIdle /\ RAInit /\ AbiIdle /\ IrqIdle /\ PresIdle /\ NeverIdle /\ DispIdle /\ ForIdle /\ CoalIdle /\ IdemIdle /\ FrameIdle

SpecRA == InitRA /\ [][RANext]_vars

CallBetween(a, u) == \E c \in (a + 1)..(u - 1) : rbody[c].op = "call"
ScratchOverCall(v) ==
    \E u \in UsesOf(rbody, v) : CallBetween(DefIdx(rbody, v), u)

\* C14: in an allocated function no VReg that lives in a scratch register is
\* used after a call that follows its definition, so every read of a scratch
\* register yields the value stored there; a function in which the allocator
\* puts such a VReg in a scratch register is rejected.
ScratchIsCallerSave ==
    /\ rphase = "allocated" =>
          \A v \in 1..Len(ralloc) :
             ralloc[v].kind = "scratch" => ~ScratchOverCall(v)
    /\ (robs # <<>> /\ ralloc[robs[1].v].kind = "scratch") =>
          /\ robs[1].got = robs[1].v
          /\ ~CallBetween(DefIdx(rbody, robs[1].v), robs[1].at)
    /\ rphase = "rejected" =>
          /\ rerror = "scratch_after_call"
          /\ \E v \in Defined(rbody) :
                ScratchOverCall(v) /\ AllocOf(rbody, rpool)[v].kind = "scratch"

\* A scratch-allocated value was read, then a call clobbered the scratch
\* register, and the function ran to its end.
ScratchUsedBeforeCall ==
    /\ rphase = "allocated" /\ rpc = Len(rbody) + 1
    /\ robs # <<>> /\ ralloc[robs[1].v].kind = "scratch"
    /\ \E c \in (robs[1].at + 1)..Len(rbody) : rbody[c].op = "call"

FreeFor(v) ==
    FreeScratch(rbody, rpool, SubSeq(AllocOf(rbody, rpool), 1, v - 1), v)

\* C27: allocation is total and capacity is never an error: in an allocated
\* function every VReg has exactly one location, a hardware register, a
\* scratch register of the pool or a stack slot; a VReg that cannot stay in
\* its hardware register and finds the pool exhausted is on the stack; the
\* only error the allocator raises is the use of a scratch value after a
\* call.
AllocationIsTotal ==
    /\ rphase = "allocated" =>
          /\ rerror = None
          /\ Len(ralloc) = Cardinality(Defined(rbody))
          /\ \A v \in 1..Len(ralloc) :
                /\ ralloc[v] \in Locations
                /\ (~Coalesceable(rbody, v) /\ FreeFor(v) = {}) =>
                       ralloc[v].kind = "stack"
    /\ rphase = "rejected" =>
          /\ rerror = "scratch_after_call"
          /\ \A v \in UsedAfterCall(rbody, AllocOf(rbody, rpool)) : FreeFor(v) # {}

\* The pool has one scratch register, two VRegs with overlapping live ranges
\* need memory: one is in the scratch register, the other on the stack, and
\* the function ran to its end.
PoolExhaustedSpill ==
    /\ rphase = "allocated" /\ rpc = Len(rbody) + 1
    /\ rpool = 1
    /\ \E v \in 1..Len(ralloc), w \in 1..Len(ralloc) :
          /\ ralloc[v].kind = "scratch" /\ ralloc[w].kind = "stack"
          /\ Overlap(rbody, v, w)
    /\ robs # <<>>

(***************************************************************************)
(* The TypeId space: a compilation unit with more structs than TypeIds.    *)
(***************************************************************************)
ManyTypes == 1..(MaxTypeId + 1)

TagLimitInit ==
    /\ typeId = [ty \in ManyTypes |-> 0]
    /\ nextId = 1
    /\ implLog = <<>>
    /\ tables = [tm \in TraitMethods |-> <<>>]
    /\ built = FALSE
    /\ lastDispatch = <<>>
    /\ terror = "none"

\* The next struct without a TypeId implements its first trait.
ImplFirstTrait == nextId \in ManyTypes /\ ImplBlock(nextId, "Drawable")

\* The last struct that can hold a TypeId implements a second trait.
ImplSecondTrait ==
    typeId[MaxTypeId] # 0 /\ ImplBlock(MaxTypeId, "Updatable")

TagLimitNext == ImplFirstTrait \/ ImplSecondTrait

InitTagLimit ==
    ModeIdle /\ FixIdle /\ TagLimitInit /\ MatchIdle /\ CallIdle /\ LaterIdle

SpecTagLimit == InitTagLimit /\ [][TagLimitNext]_vars

Tagged == {ty \in DOMAIN typeId : typeId[ty] # 0}

\* C16: at most 255 types receive a tag, the 255th gets tag 255, and tagging a
\* 256th type is a compile error that assigns nothing: no tag exceeds 255,
\* none wraps to 0 and none is used twice.
TagSpaceNeverOverflows ==
    /\ \A ty \in DOMAIN typeId : typeId[ty] \in 0..MaxTypeId
    /\ \A ty \in Tagged, other \in Tagged :
          typeId[ty] = typeId[other] => ty = other
    /\ {typeId[ty] : ty \in Tagged} = 1..Cardinality(Tagged)
    /\ \A i \in DOMAIN implLog : implLog[i][1] \in Tagged
    /\ Cardinality(Tagged) <= MaxTypeId
    /\ nextId = Cardinality(Tagged) + 1
    /\ terror = "too_many_types" => Cardinality(Tagged) = MaxTypeId
    /\ terror \in {"none", "too_many_types"}

\* The 255th struct holds TypeId 255 and the 256th was refused.
Refused256thType ==
    /\ terror = "too_many_types"
    /\ typeId[MaxTypeId] = MaxTypeId
    /\ typeId[MaxTypeId + 1] = 0
    /\ Implements(implLog, MaxTypeId, "Updatable")

(***************************************************************************)
(* Parameter passing: the ordering rule of a function declaration.         *)
(***************************************************************************)
MaxParams == 4

\* param: Type  /  param @ A: u8  /  param @ VAR: Type
ParamKinds == {"stack", "register", "variable"}

Decls == UNION { [1..n -> ParamKinds] : n \in 0..MaxParams }

AbiInit ==
    /\ adecl \in Decls
    /\ aphase = "declared"
    /\ aerror = None
    /\ acall = <<>>

\* Only a register parameter in front of a stack parameter is looked for.
OrderingOkRegistersOnly(d) ==
    \A i \in DOMAIN d, j \in DOMAIN d :
        (i < j /\ d[j] = "stack") => d[i] # "register"

\* Stack parameters appear before register and variable-bound parameters.
OrderingOk(d) ==
    \A i \in DOMAIN d, j \in DOMAIN d :
        (i < j /\ d[j] = "stack") => d[i] = "stack"

\* The declaration is validated; only a valid one is lowered.
ValidateAbi ==
    /\ aphase = "declared"
    /\ IF OrderingOk(adecl)
       THEN aphase' = "lowered" /\ aerror' = None
       ELSE aphase' = "rejected" /\ aerror' = "param_order"
    /\ UNCHANGED <<adecl, acall>>
    /\ UNCHANGED NotAbi

RECURSIVE PushOrder(_, _)
\* Indices of the stack parameters from the last one to the first.
PushOrder(d, i) ==
    IF i = 0 THEN <<>>
    ELSE IF d[i] = "stack" THEN <<i>> \o PushOrder(d, i - 1)
    ELSE PushOrder(d, i - 1)

\* A call of the function: the caller pushes the stack parameters in
\* right-to-left order.
EmitCall ==
    /\ aphase = "lowered"
    /\ acall = <<>>
    /\ acall' = << [pushed |-> PushOrder(adecl, Len(adecl))] >>
    /\ UNCHANGED <<adecl, aphase, aerror>>
    /\ UNCHANGED NotAbi

AbiNext == ValidateAbi \/ EmitCall

InitAbi == CoreIdle /\ SCIdle /\ LoopIdle /\ RAIdle /\ AbiInit /\ IrqIdle /\ PresIdle /\ NeverIdle /\ DispIdle /\ ForIdle /\ CoalIdle /\ IdemIdle /\ FrameIdle

SpecAbi == InitAbi /\ [][AbiNext]_vars

StackParams == {i \in DOMAIN adecl : adecl[i] = "stack"}
BoundParams == {i \in DOMAIN adecl : adecl[i] \in {"register", "variable"}}
StackFirst == \A i \in StackParams, j \in BoundParams : i < j

\* C17: a declaration is lowered only if every stack parameter precedes every
\* register-bound and variable-bound parameter; a declaration with a stack
\* parameter after a register or variable-bound one is a compile error and
\* nothing is lowered for it, no call of it either.
StackParamsFirst ==
    /\ aphase = "lowered" => StackFirst
    /\ (aphase # "declared" /\ ~StackFirst) =>
          (aphase = "rejected" /\ aerror = "param_order")
    /\ acall # <<>> => (aphase = "lowered" /\ StackFirst)
    /\ aphase = "rejected" => acall = <<>>

\* fn bad(p @ VAR: u8, count: u8): a stack parameter behind a variable-bound
\* one was rejected.
StackAfterVariableRejected ==
    /\ aphase = "rejected" /\ aerror = "param_order"
    /\ Len(adecl) = 2
    /\ adecl[1] = "variable" /\ adecl[2] = "stack"

(***************************************************************************)
(* Interrupt handlers: automatic register preservation and mode handling.  *)
(***************************************************************************)
MaxNesting == 2       \* handlers active at the same time

\* The bits of STATUS that the model tracks.
MBit == 32            \* $20: accumulator width, set = 8-bit
IBit == 4             \* $04: IRQ disable
CBit == 1             \* $01: carry, standing for the arithmetic flags

StatusByte(r) == r.M * MBit + r.I * IBit + r.C * CBit
WithStatus(r, p) ==
    [r EXCEPT !.M = (p \div MBit) % 2, !.I = (p \div IBit) % 2,
              !.C = (p \div CBit) % 2]

Hi(w) == w \div 256
Lo(w) == w % 256

\* What the interrupted code has on the stack.
CallerFrames == <<201, 202, 203, 204>>

\* The machine when the first interrupt fires: any mode, any flags.
IrqInit ==
    /\ ireg \in [A : {17}, B : {34}, X : {259}, Y : {516}, D : {773},
                 DBR : {126}, M : {0, 1}, I : {0}, C : {0, 1}]
    /\ istack = CallerFrames
    /\ ipc = <<>>
    /\ isaved = <<>>
    /\ iobs = <<>>

\* The prologue without the forced 16-bit accumulator.
PrologueNoRep == <<"PHP", "PHA", "PHX", "PHY", "PHD", "PHB", "SEP20">>

\* nmi_handler: ... registers saved, m8 set for the body.
Prologue == <<"PHP", "REP20", "PHA", "PHX", "PHY", "PHD", "PHB", "SEP20">>

\* Registers restored in reverse order, STATUS last, RTI.
Epilogue == <<"PLB", "PLD", "PLY", "PLX", "REP20", "PLA", "PLP", "RTI">>

HandlerCode == Prologue \o <<"BODY">> \o Epilogue

Push8(st, b) == Append(st, b)
Push16(st, w) == Append(Append(st, Hi(w)), Lo(w))
Top8(st) == st[Len(st)]
Top16(st) == st[Len(st) - 1] * 256 + st[Len(st)]
Drop(st, n) == SubSeq(st, 1, Len(st) - n)

\* Registers after one instruction of the handler.
ExecReg(ins, r, st) ==
    CASE ins = "REP20" -> [r EXCEPT !.M = 0]
      [] ins = "SEP20" -> [r EXCEPT !.M = 1]
      [] ins = "PLB"   -> [r EXCEPT !.DBR = Top8(st)]
      [] ins = "PLD"   -> [r EXCEPT !.D = Top16(st)]
      [] ins = "PLY"   -> [r EXCEPT !.Y = Top16(st)]
      [] ins = "PLX"   -> [r EXCEPT !.X = Top16(st)]
      [] ins = "PLA"   -> IF r.M = 0
                          THEN [r EXCEPT !.A = Lo(Top16(st)), !.B = Hi(Top16(st))]
                          ELSE [r EXCEPT !.A = Top8(st)]
      [] ins = "PLP"   -> WithStatus(r, Top8(st))
      [] OTHER         -> r

\* The stack after one instruction of the handler.
ExecStack(ins, r, st) ==
    CASE ins = "PHP" -> Push8(st, StatusByte(r))
      [] ins = "PHA" -> IF r.M = 0 THEN Push16(st, r.B * 256 + r.A)
                        ELSE Push8(st, r.A)
      [] ins = "PHX" -> Push16(st, r.X)
      [] ins = "PHY" -> Push16(st, r.Y)
      [] ins = "PHD" -> Push16(st, r.D)
      [] ins = "PHB" -> Push8(st, r.DBR)
      [] ins \in {"PLB", "PLP"} -> Drop(st, 1)
      [] ins \in {"PLD", "PLY", "PLX"} -> Drop(st, 2)
      [] ins = "PLA" -> Drop(st, IF r.M = 0 THEN 2 ELSE 1)
      [] OTHER -> st

Depth == Len(ipc)
CurIns == HandlerCode[ipc[Depth]]
Advance == [ipc EXCEPT ![Depth] = ipc[Depth] + 1]

\* An interrupt is taken: the hardware pushes PBR, PC and STATUS, sets the
\* IRQ-disable bit and enters the handler.
InterruptFires ==
    /\ Depth < MaxNesting
    /\ isaved' = Append(isaved, [reg |-> ireg, sp |-> Len(istack)])
    /\ istack' = Push8(Push16(Push8(istack, 0), 0), StatusByte(ireg))
    /\ ireg' = [ireg EXCEPT !.I = 1]
    /\ ipc' = Append(ipc, 1)
    /\ iobs' = <<>>
    /\ UNCHANGED NotIrq

\* One instruction of the generated prologue or epilogue, RTI apart.
HandlerStep ==
    /\ Depth > 0
    /\ CurIns \notin {"BODY", "RTI"}
    /\ ireg' = ExecReg(CurIns, ireg, istack)
    /\ istack' = ExecStack(CurIns, ireg, istack)
    /\ ipc' = Advance
    /\ UNCHANGED <<isaved, iobs>>
    /\ UNCHANGED NotIrq

\* The handler body overwrites every register and the flags.
BodyClobbers ==
    /\ Depth > 0 /\ CurIns = "BODY"
    /\ ireg' = [ireg EXCEPT !.A = 0, !.B = 0, !.X = 0, !.Y = 0, !.D = 0,
                            !.DBR = 0, !.C = 1 - isaved[Depth].reg.C]
    /\ ireg' # ireg
    /\ UNCHANGED <<istack, ipc, isaved, iobs>>
    /\ UNCHANGED NotIrq

\* The handler body leaves m8 (REP #$20 in a callee or in asm!) or re-enables
\* interrupts (asm!("CLI")).
BodySetsFlag(f) ==
    /\ Depth > 0 /\ CurIns = "BODY"
    /\ ireg' = IF f = "M" THEN [ireg EXCEPT !.M = 0]
               ELSE [ireg EXCEPT !.I = 0]
    /\ ireg' # ireg
    /\ UNCHANGED <<istack, ipc, isaved, iobs>>
    /\ UNCHANGED NotIrq

\* The body ends and the epilogue begins.
BodyEnds ==
    /\ Depth > 0 /\ CurIns = "BODY"
    /\ ipc' = Advance
    /\ UNCHANGED <<ireg, istack, isaved, iobs>>
    /\ UNCHANGED NotIrq

\* RTI pulls STATUS, PC and PBR and resumes the interrupted code.
ReturnFromInterrupt ==
    /\ Depth > 0 /\ CurIns = "RTI"
    /\ ireg' = WithStatus(ireg, Top8(istack))
    /\ istack' = Drop(istack, 4)
    /\ ipc' = SubSeq(ipc, 1, Depth - 1)
    /\ isaved' = SubSeq(isaved, 1, Depth - 1)
    /\ iobs' = << [fired |-> isaved[Depth], reg |-> ireg',
                   sp |-> Len(istack'), depth |-> Depth] >>
    /\ UNCHANGED NotIrq

IrqNext ==
    \/ InterruptFires
    \/ HandlerStep
    \/ BodyClobbers
    \/ \E f \in {"M", "I"} : BodySetsFlag(f)
    \/ BodyEnds
    \/ ReturnFromInterrupt

InitIrq == CoreIdle /\ SCIdle /\ LoopIdle /\ RAIdle /\ AbiIdle /\ IrqInit /\ PresIdle /\ NeverIdle /\ DispIdle /\ ForIdle /\ CoalIdle /\ IdemIdle /\ FrameIdle

SpecIrq == InitIrq /\ [][IrqNext]_vars

RECURSIVE Reversed(_)
Reversed(s) == IF s = <<>> THEN <<>> ELSE Append(Reversed(Tail(s)), Head(s))
Pushes == SelectSeq(HandlerCode, LAMBDA i : i \in {"PHP", "PHA", "PHX", "PHY", "PHD", "PHB"})
Pulls == SelectSeq(HandlerCode, LAMBDA i : i \in {"PLP", "PLA", "PLX", "PLY", "PLD", "PLB"})
PullOf(i) ==
    CASE i = "PHP" -> "PLP" [] i = "PHA" -> "PLA" [] i = "PHX" -> "PLX"
      [] i = "PHY" -> "PLY" [] i = "PHD" -> "PLD" [] i = "PHB" -> "PLB"

\* C18: when a handler returns with RTI, STATUS (M bit included), the 16-bit
\* accumulator (A and B), X, Y, D and DBR hold the values they had when the
\* interrupt fired, in m8 and in m16, at any point of the interrupted code or
\* of another handler; the pulls are the pushes in reverse order and the
\* stack pointer is back where it was.
InterruptIsTransparent ==
    /\ iobs # <<>> =>
          /\ iobs[1].reg = iobs[1].fired.reg
          /\ iobs[1].sp = iobs[1].fired.sp
    /\ Pulls = Reversed([k \in 1..Len(Pushes) |-> PullOf(Pushes[k])])

\* An interrupt that fired in m16 inside the clobbering body of another
\* handler has returned.
NestedReturnInM16 ==
    /\ iobs # <<>> /\ iobs[1].depth = 2
    /\ iobs[1].fired.reg.M = 0
    /\ iobs[1].fired.reg.A = 0
    /\ iobs[1].reg = iobs[1].fired.reg

(***************************************************************************)
(* Register preservation: #[preserves(...)] functions.                     *)
(***************************************************************************)
MaxPreserved == 2     \* registers listed in one #[preserves(...)]

PreservableRegs == {"A", "X", "Y", "STATUS", "D", "DBR"}

PreserveLists ==
    UNION { {l \in [1..n -> PreservableRegs] :
                \A i \in 1..n, j \in 1..n : i # j => l[i] # l[j]}
            : n \in 1..MaxPreserved }

PushIns(r) ==
    CASE r = "A" -> "PHA" [] r = "X" -> "PHX" [] r = "Y" -> "PHY"
      [] r = "STATUS" -> "PHP" [] r = "D" -> "PHD" [] r = "DBR" -> "PHB"
PullIns(r) ==
    CASE r = "A" -> "PLA" [] r = "X" -> "PLX" [] r = "Y" -> "PLY"
      [] r = "STATUS" -> "PLP" [] r = "D" -> "PLD" [] r = "DBR" -> "PLB"

\* Push instructions at function entry, in the order of the list.
SavePreserved(l) == [k \in 1..Len(l) |-> PushIns(l[k])]
\* Pull instructions before a return, in reverse order.
RestorePreserved(l) == [k \in 1..Len(l) |-> PullIns(l[Len(l) + 1 - k])]

ModeIn(fd) == IF InferMode(fd) = "m16" THEN <<"REP20">> ELSE <<>>
ModeOut(fd) == IF InferMode(fd) = "m16" THEN <<"SEP20">> ELSE <<>>

\* Both the pushes and the REP #$20 stand "at function entry", both the pulls
\* and the SEP #$20 "before the return": either may come first.
EntryCode(fd) ==
    IF fd.order = "push_first" THEN SavePreserved(fd.pres) \o ModeIn(fd)
    ELSE ModeIn(fd) \o SavePreserved(fd.pres)
ReturnPath(fd) ==
    (IF fd.order = "push_first" THEN ModeOut(fd) \o RestorePreserved(fd.pres)
     ELSE RestorePreserved(fd.pres) \o ModeOut(fd)) \o <<"RTS">>

\* entry, body, the early return path, the final return path
FunctionCode(fd) ==
    EntryCode(fd) \o <<"BODY">> \o ReturnPath(fd) \o ReturnPath(fd)

PathStart(fd, path) ==
    Len(EntryCode(fd)) + 2
        + (IF path = "final" THEN Len(ReturnPath(fd)) ELSE 0)

ReturnAddress == <<18, 52>>

PresInit ==
    /\ pdecl \in [aparam : AParamTypes, pres : PreserveLists,
                  order : {"push_first", "mode_first"}]
    /\ preg \in [A : {17}, B : {34}, X : {259}, Y : {516}, D : {773},
                 DBR : {126}, M : {0, 1}, I : {0}, C : {0, 1}]
    /\ pstack = CallerFrames
    /\ ppc = 0
    /\ pentry = <<>>
    /\ pobs = <<>>

PIns == FunctionCode(pdecl)[ppc]
InFunction == ppc \in 1..Len(FunctionCode(pdecl))

\* JSR: the return address is pushed and the function entered.
CallPreserving ==
    /\ ppc = 0 /\ pobs = <<>>
    /\ pentry' = << [reg |-> preg, sp |-> Len(pstack)] >>
    /\ pstack' = Append(Append(pstack, ReturnAddress[1]), ReturnAddress[2])
    /\ ppc' = 1
    /\ UNCHANGED <<pdecl, preg, pobs>>
    /\ UNCHANGED NotPres

\* One generated instruction of the entry or of a return path.
PreserveStep ==
    /\ InFunction /\ PIns \notin {"BODY", "RTS"}
    /\ preg' = ExecReg(PIns, preg, pstack)
    /\ pstack' = ExecStack(PIns, preg, pstack)
    /\ ppc' = ppc + 1
    /\ UNCHANGED <<pdecl, pentry, pobs>>
    /\ UNCHANGED NotPres

\* The body modifies the registers freely.
PBodyClobbers ==
    /\ InFunction /\ PIns = "BODY"
    /\ preg' = [preg EXCEPT !.A = 0, !.B = 0, !.X = 0, !.Y = 0, !.D = 0,
                            !.DBR = 0, !.C = 1 - pentry[1].reg.C]
    /\ preg' # preg
    /\ UNCHANGED <<pdecl, pstack, ppc, pentry, pobs>>
    /\ UNCHANGED NotPres

ModeName(mbit) == IF mbit = 1 THEN "m8" ELSE "m16"
ModeBit(name) == IF name = "m8" THEN 1 ELSE 0

\* The body calls another function; the callee switches modes as its own
\* prologue and epilogue say.
PBodyCalls(callee) ==
    /\ InFunction /\ PIns = "BODY"
    /\ preg' = [preg EXCEPT !.M =
                   ModeBit(EpilogueMode(callee,
                               PrologueMode(callee, ModeName(preg.M))))]
    /\ preg' # preg
    /\ UNCHANGED <<pdecl, pstack, ppc, pentry, pobs>>
    /\ UNCHANGED NotPres

\* `return` in the middle of the body, or the end of the body.
PBodyReturns(path) ==
    /\ InFunction /\ PIns = "BODY"
    /\ ppc' = PathStart(pdecl, path)
    /\ UNCHANGED <<pdecl, preg, pstack, pentry, pobs>>
    /\ UNCHANGED NotPres

\* RTS pulls the return address.
ReturnPreserving ==
    /\ InFunction /\ PIns = "RTS"
    /\ pobs' = << [reg |-> preg, sp |-> Len(pstack) - 2,
                   ret |-> <<pstack[Len(pstack) - 1], pstack[Len(pstack)]>>] >>
    /\ pstack' = Drop(pstack, 2)
    /\ ppc' = 0
    /\ UNCHANGED <<pdecl, preg, pentry>>
    /\ UNCHANGED NotPres

PresNext ==
    \/ CallPreserving
    \/ PreserveStep
    \/ PBodyClobbers
    \/ \E callee \in [aparam : AParamTypes] : PBodyCalls(callee)
    \/ \E path \in {"early", "final"} : PBodyReturns(path)
    \/ ReturnPreserving

InitPres ==
    CoreIdle /\ SCIdle /\ LoopIdle /\ RAIdle /\ AbiIdle /\ IrqIdle /\ PresInit /\ NeverIdle /\ DispIdle /\ ForIdle /\ CoalIdle /\ IdemIdle /\ FrameIdle

SpecPres == InitPres /\ [][PresNext]_vars

\* Register r holds after the call what it held before it.
Restored(r, before, after) ==
    CASE r = "A"      -> /\ after.A = before.A
                         /\ before.M = 0 => after.B = before.B
      [] r = "X"      -> after.X = before.X
      [] r = "Y"      -> after.Y = before.Y
      [] r = "D"      -> after.D = before.D
      [] r = "DBR"    -> after.DBR = before.DBR
      [] r = "STATUS" -> StatusByte(after) = StatusByte(before)

\* C19: after a call of a #[preserves(R1, ..., Rn)] function each listed
\* register holds the value it had before the call, on the early and on the
\* final return path and however the body modifies it, and the stack is
\* balanced at the RTS: it pulls the return address the JSR pushed.
PreservedRegistersRestored ==
    pobs # <<>> =>
       /\ \A k \in 1..Len(pdecl.pres) :
             Restored(pdecl.pres[k], pentry[1].reg, pobs[1].reg)
       /\ pobs[1].sp = pentry[1].sp
       /\ pobs[1].ret = ReturnAddress

(***************************************************************************)
(* Never-returning functions: `-> !`.                                      *)
(***************************************************************************)
MaxStmts == 3         \* statements of the function body

\* A statement of the body: a call, `return`, `loop { }` without a break,
\* a loop that ends.
StmtKinds == {"call", "return", "loop", "loop_exit"}

NeverBodies == UNION { [1..n -> StmtKinds] : n \in 0..MaxStmts }

NeverInit ==
    /\ nfn \in [never : BOOLEAN, far : BOOLEAN, body : NeverBodies]
    /\ nphase = "parsed"
    /\ nerror = None
    /\ ncode = <<>>
    /\ npc = 0
    /\ nend = None

\* Control flow gets past a statement unless it returns or loops forever.
FallsThrough(st) == st \in {"call", "loop_exit"}
ReachableAt(body, i) == \A j \in 1..(i - 1) : FallsThrough(body[j])
EndReachable(body) == ReachableAt(body, Len(body) + 1)

\* "A function declared -> ! that can actually return": a return statement
\* that control flow reaches.
CanReturn(body) ==
    \E i \in 1..Len(body) : body[i] = "return" /\ ReachableAt(body, i)

ReturnIns(fn) == IF fn.far THEN "RTL" ELSE "RTS"

RECURSIVE LowerStmts(_, _, _)
\* The reachable statements in order; RTS/RTL is omitted in a -> ! function.
LowerStmts(fn, i, acc) ==
    IF i > Len(fn.body) \/ ~ReachableAt(fn.body, i) THEN acc
    ELSE LowerStmts(fn, i + 1,
            CASE fn.body[i] = "call"      -> Append(acc, "JSR")
              [] fn.body[i] = "loop"      -> Append(acc, "JMP_loop_start")
              [] fn.body[i] = "loop_exit" -> Append(acc, "LOOP")
              [] fn.body[i] = "return"    ->
                     IF fn.never THEN acc ELSE Append(acc, ReturnIns(fn)))

\* The code of the function: its statements, then the implicit return, or in
\* a -> ! function the WAI fallback where control flow reaches the end.
LowerFunction(fn) ==
    LowerStmts(fn, 1, <<>>) \o
        (IF ~EndReachable(fn.body) THEN <<>>
         ELSE IF fn.never THEN <<"WAI">> ELSE <<ReturnIns(fn)>>)

CompileFunction ==
    /\ nphase = "parsed"
    /\ IF nfn.never /\ CanReturn(nfn.body)
       THEN /\ nphase' = "rejected"
            /\ nerror' = "never_returns"
            /\ ncode' = <<>>
            /\ npc' = 0
       ELSE /\ nphase' = "lowered"
            /\ nerror' = None
            /\ ncode' = LowerFunction(nfn)
            /\ npc' = 1
    /\ UNCHANGED <<nfn, nend>>
    /\ UNCHANGED NotNever

\* One instruction of the emitted code.
RunFunction ==
    /\ nphase = "lowered" /\ nend = None
    /\ npc <= Len(ncode)
    /\ CASE ncode[npc] \in {"JSR", "LOOP"} ->
                npc' = npc + 1 /\ nend' = nend
         [] ncode[npc] = "JMP_loop_start" ->
                npc' = npc /\ nend' = "loops"
         [] ncode[npc] = "WAI" ->
                npc' = npc /\ nend' = "halted"
         [] ncode[npc] \in {"RTS", "RTL"} ->
                npc' = npc /\ nend' = "returned"
    /\ UNCHANGED <<nfn, nphase, nerror, ncode>>
    /\ UNCHANGED NotNever

NeverNext == CompileFunction \/ RunFunction

InitNever == CoreIdle /\ SCIdle /\ LoopIdle /\ RAIdle /\ AbiIdle /\ IrqIdle /\ PresIdle /\ NeverInit /\ DispIdle /\ ForIdle /\ CoalIdle /\ IdemIdle /\ FrameIdle

SpecNever == InitNever /\ [][NeverNext]_vars

Emits(ins) == \E k \in 1..Len(ncode) : ncode[k] = ins

\* C21: a -> ! function in which control flow can reach a return or the end
\* of the body is rejected with a compile error, and the code of an accepted
\* -> ! function holds no RTS and no RTL.
NeverFunctionsNeverReturn ==
    nfn.never =>
       /\ (nphase # "parsed" /\ (CanReturn(nfn.body) \/ EndReachable(nfn.body)))
             => (nphase = "rejected" /\ nerror = "never_returns")
       /\ nphase = "lowered" => ~Emits("RTS") /\ ~Emits("RTL")

(***************************************************************************)
(* The dispatch sequence at a call site, instruction by instruction.       *)
(***************************************************************************)
Tags == 1..MaxTypeId

NearEntryWidth == 2   \* .dw entries
FarEntryWidth == 4    \* JML entries

EntryWidth(far) == IF far THEN FarEntryWidth ELSE NearEntryWidth

\* LDA (obj); ASL A; TAX; JMP (table,X).  The far sequence multiplies by 4.
DispatchCode(far) ==
    <<"LDA_obj", "ASL">> \o (IF far THEN <<"ASL">> ELSE <<>>) \o <<"TAX", "JMP_table_X">>

\* The object: its TypeId byte at offset 0 and the byte that follows it; the
\* accumulator mode of the calling function; what B holds at the call site.
DispInit ==
    /\ dobj \in [tag : Tags, next : {0, 7}]
    /\ dfar \in BOOLEAN
    /\ dreg \in [A : {0}, B : {0, 3}, X : {0}, M : {0, 1}]
    /\ dpc = 1
    /\ dland = <<>>

\* The 16-bit accumulator C = B:A.
Acc16(r) == r.B * 256 + r.A

\* One instruction on the registers; A is 8 bits wide when M = 1 and B:A 16
\* bits wide when M = 0, X is always 16 bits wide.
DispExec(ins, r, obj) ==
    CASE ins = "LDA_obj" ->
            IF r.M = 1 THEN [r EXCEPT !.A = obj.tag]
            ELSE [r EXCEPT !.A = obj.tag, !.B = obj.next]
      [] ins = "ASL" ->
            IF r.M = 1 THEN [r EXCEPT !.A = (2 * r.A) % 256]
            ELSE [r EXCEPT !.A = (2 * Acc16(r)) % 256,
                           !.B = ((2 * Acc16(r)) % 65536) \div 256]
      [] ins = "TAX" -> [r EXCEPT !.X = Acc16(r)]
      [] OTHER -> r

DispatchStep ==
    /\ dpc <= Len(DispatchCode(dfar))
    /\ DispatchCode(dfar)[dpc] # "JMP_table_X"
    /\ dreg' = DispExec(DispatchCode(dfar)[dpc], dreg, dobj)
    /\ dpc' = dpc + 1
    /\ UNCHANGED <<dobj, dfar, dland>>
    /\ UNCHANGED NotDisp

\* Control goes to the table entry at byte offset X.
DispatchJump ==
    /\ dpc <= Len(DispatchCode(dfar))
    /\ DispatchCode(dfar)[dpc] = "JMP_table_X"
    /\ dland' = << [offset |-> dreg.X,
                    entry |-> IF dreg.X % EntryWidth(dfar) = 0
                              THEN dreg.X \div EntryWidth(dfar)
                              ELSE -1] >>
    /\ dpc' = dpc + 1
    /\ UNCHANGED <<dobj, dfar, dreg>>
    /\ UNCHANGED NotDisp

DispNext == DispatchStep \/ DispatchJump

InitDisp == CoreIdle /\ SCIdle /\ LoopIdle /\ RAIdle /\ AbiIdle /\ IrqIdle /\ PresIdle /\ NeverIdle /\ DispInit /\ ForIdle /\ CoalIdle /\ IdemIdle /\ FrameIdle

SpecDisp == InitDisp /\ [][DispNext]_vars

\* C22: for every tag t in 1..255 the dispatch sequence jumps to byte offset
\* t * entry_width of the table (2 for near tables, 4 for far trampolines),
\* the entry of tag t, in whichever accumulator mode the call site runs.
DispatchReachesOwnEntry ==
    dland # <<>> =>
       /\ dland[1].offset = dobj.tag * EntryWidth(dfar)
       /\ dland[1].entry = dobj.tag

(***************************************************************************)
(* Lowered loops at run time: range `for`, `while`, `loop`, and `continue`.*)
(***************************************************************************)
U8Max == 255          \* the loop variable is a u8
Wrap8(n) == n % (U8Max + 1)
IterCap == U8Max + 2  \* iterations are counted up to here

RunLoopKinds == {"for", "for_incl", "while", "loop"}
IsFor(l) == l.kind \in {"for", "for_incl"}
RangeEnds == {0, 1, 2, U8Max - 1, U8Max}

\* Empty ranges (5..5, 5..=3) are a compile error.
NonEmpty(l) == IF l.kind = "for_incl" THEN l.start <= l.end ELSE l.start < l.end

\* `cont`: the body holds `if skip { continue; }` before its call.
RunLoops ==
    {l \in [kind : RunLoopKinds, start : RangeEnds, end : RangeEnds,
            cont : BOOLEAN] : NonEmpty(l)}

Ins(op, tgt, c) == [op |-> op, tgt |-> tgt, cont |-> c]

\* Where `continue` and the end of the body jump to: the condition check of a
\* `for` (after its initialisation) or a `while`, the start of a `loop`.
HeadAddr(l) == IF IsFor(l) THEN 2 ELSE 1

\* `continue` is a plain JMP in every loop.
ContinueCodeJmpOnly(l) == <<Ins("JMP", HeadAddr(l), TRUE)>>

\* `continue`: a JMP to the head; in a `for` loop the loop variable is
\* incremented before the jump.
ContinueCode(l) ==
    (IF IsFor(l) THEN <<Ins("INC", 0, TRUE)>> ELSE <<>>)
        \o <<Ins("JMP", HeadAddr(l), TRUE)>>

\* if skip { [index += 1;] continue; }   -- BEQ not_skipped; ...; not_skipped:
SkipCode(l, at) ==
    IF ~l.cont THEN <<>>
    ELSE LET pre == IF l.kind = "while" THEN <<Ins("INC", 0, FALSE)>> ELSE <<>>
         IN  <<Ins("IF_SKIP", at + 1 + Len(pre) + Len(ContinueCode(l)), FALSE)>>
                 \o pre \o ContinueCode(l)

LoopCode(l) ==
    CASE IsFor(l) ->
            <<Ins("INIT", 0, FALSE), Ins("TEST", 0, FALSE)>> \o SkipCode(l, 3)
                \o <<Ins("BODY", 0, FALSE), Ins("INC", 0, FALSE),
                     Ins("JMP", HeadAddr(l), FALSE)>>
      [] l.kind = "while" ->
            <<Ins("TEST", 0, FALSE)>> \o SkipCode(l, 2)
                \o <<Ins("BODY", 0, FALSE), Ins("INC", 0, FALSE),
                     Ins("JMP", HeadAddr(l), FALSE)>>
      [] l.kind = "loop" ->
            <<Ins("INC", 0, FALSE)>> \o SkipCode(l, 2)
                \o <<Ins("BODY", 0, FALSE), Ins("BREAK_IF", 0, FALSE),
                     Ins("JMP", HeadAddr(l), FALSE)>>

LoopEnd(l) == Len(LoopCode(l)) + 1

\* while i < end   (CMP #end; BCS loop_end)
ExclusiveCond(i, end) == i < end
\* the pre-test of the inclusive form
InclusiveCond(i, end) == i <= end

LoopCond(l, i) ==
    IF l.kind = "for_incl" THEN InclusiveCond(i, l.end)
    ELSE ExclusiveCond(i, l.end)

ForInit ==
    /\ floop \in RunLoops
    /\ fi = floop.start
    /\ fpc = 1
    /\ fiter = 0
    /\ ford = TRUE
    /\ fskips = [all |-> TRUE, any |-> FALSE]
    /\ fobs = <<>>

FIns == LoopCode(floop)[fpc]
FRunning == fpc <= Len(LoopCode(floop))

\* LDA #start; STA i
RunInit ==
    /\ FRunning /\ FIns.op = "INIT"
    /\ fi' = floop.start
    /\ fpc' = fpc + 1
    /\ UNCHANGED <<floop, fiter, ford, fskips>>
    /\ fobs' = <<>>
    /\ UNCHANGED NotFor

\* The condition check: the next iteration starts or the loop is left.
RunTest ==
    /\ FRunning /\ FIns.op = "TEST"
    /\ IF LoopCond(floop, fi)
       THEN /\ fpc' = fpc + 1
            /\ fiter' = IF fiter < IterCap THEN fiter + 1 ELSE fiter
            /\ ford' = (ford /\ fi = floop.start + fiter)
       ELSE /\ fpc' = LoopEnd(floop)
            /\ UNCHANGED <<fiter, ford>>
    /\ UNCHANGED <<floop, fi, fskips>>
    /\ fobs' = <<>>
    /\ UNCHANGED NotFor

\* The body decides whether this iteration executes `continue`.
RunSkip(skip) ==
    /\ FRunning /\ FIns.op = "IF_SKIP"
    /\ fpc' = IF skip THEN fpc + 1 ELSE FIns.tgt
    /\ fskips' = [all |-> fskips.all /\ skip, any |-> fskips.any \/ skip]
    /\ UNCHANGED <<floop, fi, fiter, ford>>
    /\ fobs' = <<>>
    /\ UNCHANGED NotFor

\* INC i: the u8 wraps around.
RunInc ==
    /\ FRunning /\ FIns.op = "INC"
    /\ fi' = Wrap8(fi + 1)
    /\ fpc' = fpc + 1
    /\ UNCHANGED <<floop, fiter, ford, fskips>>
    /\ fobs' = <<>>
    /\ UNCHANGED NotFor

\* JSR process
RunBody ==
    /\ FRunning /\ FIns.op = "BODY"
    /\ fpc' = fpc + 1
    /\ UNCHANGED <<floop, fi, fiter, ford, fskips>>
    /\ fobs' = <<>>
    /\ UNCHANGED NotFor

\* if i >= end { break; }
RunBreak ==
    /\ FRunning /\ FIns.op = "BREAK_IF"
    /\ fpc' = IF fi >= floop.end THEN LoopEnd(floop) ELSE fpc + 1
    /\ UNCHANGED <<floop, fi, fiter, ford, fskips>>
    /\ fobs' = <<>>
    /\ UNCHANGED NotFor

\* JMP loop_start, of a `continue` or of the end of the body.
RunJmp ==
    /\ FRunning /\ FIns.op = "JMP"
    /\ fpc' = FIns.tgt
    /\ fobs' = IF FIns.cont
               THEN << [i |-> fi, iter |-> fiter, landed |-> FIns.tgt] >>
               ELSE fobs
    /\ UNCHANGED <<floop, fi, fiter, ford, fskips>>
    /\ UNCHANGED NotFor

ForNext ==
    \/ RunInit
    \/ RunTest
    \/ \E skip \in BOOLEAN : RunSkip(skip)
    \/ RunInc
    \/ RunBody
    \/ RunBreak
    \/ RunJmp

InitFor == CoreIdle /\ SCIdle /\ LoopIdle /\ RAIdle /\ AbiIdle /\ IrqIdle /\ PresIdle /\ NeverIdle /\ DispIdle /\ ForInit /\ CoalIdle /\ IdemIdle /\ FrameIdle

SpecFor == InitFor /\ [][ForNext]_vars

AtHead == FRunning /\ fpc = HeadAddr(floop)

Expected(l) == IF l.kind = "for_incl" THEN l.end - l.start + 1 ELSE l.end - l.start

\* C25: `for v in start..end` runs its body for v = start, ..., end - 1 and
\* `for v in start..=end` for v = start, ..., end, in increasing order, and
\* then ends, also when end is the largest value of the type.
RangeIteratesExactly ==
    IsFor(floop) =>
       /\ ford
       /\ fiter <= Expected(floop)
       /\ fpc = LoopEnd(floop) => fiter = Expected(floop)

(***************************************************************************)
(* Hardware coalescence in two passes, on MIR with moves.                  *)
(***************************************************************************)
MaxCoalBody == 4      \* instructions of the function body
NumCoalVRegs == 3     \* virtual registers of the function

CoalVRegs == 1..NumCoalVRegs
CoalReg == "A"

\* MIR: an operation that leaves its result in the hardware register
\* (src = 0), a move of VReg src into it (src # 0), a use, a call.
CInstrs ==
    {i \in [op : {"def"}, v : CoalVRegs, reg : {CoalReg}, src : 0..NumCoalVRegs]
        : i.src < i.v}
    \cup [op : {"use"}, v : CoalVRegs, reg : {None}, src : {0}]
    \cup [op : {"call"}, v : {0}, reg : {None}, src : {0}]

\* A move reads its source.
ReadsOf(b, v) ==
    {i \in 1..Len(b) : (b[i].op = "use" /\ b[i].v = v)
                       \/ (b[i].op = "def" /\ b[i].src = v)}
LastRead(b, v) == MaxOfSet(ReadsOf(b, v) \cup {DefIdx(b, v)})

CoalWellFormed(b) ==
    /\ \A v \in CoalVRegs : Cardinality(DefsOf(b, v)) <= 1
    /\ \A v \in CoalVRegs : \A u \in ReadsOf(b, v) :
          DefsOf(b, v) # {} /\ DefIdx(b, v) < u
    /\ \A v \in CoalVRegs, w \in CoalVRegs :
          (v < w /\ DefsOf(b, w) # {}) =>
              (DefsOf(b, v) # {} /\ DefIdx(b, v) < DefIdx(b, w))

CoalBodies ==
    UNION { {b \in [1..n -> CInstrs] : CoalWellFormed(b)} : n \in 1..MaxCoalBody }

CoalDefined(b) == {v \in CoalVRegs : DefsOf(b, v) # {}}

\* Explicit register aliases and fixed memory locations of the function.
Bindings ==
    { <<>>,
      << [kind |-> "alias", at |-> "X"] >>,
      << [kind |-> "alias", at |-> "Y"], [kind |-> "zeropage", at |-> 32] >> }

CoalInit ==
    /\ cbody \in CoalBodies
    /\ cbind \in Bindings
    /\ cpass = 0
    /\ cco = <<{}, {}>>
    /\ cplace = <<>>
    /\ cpc = 1
    /\ cmem = <<>>
    /\ cobs = <<>>

\* Pass 1: the hardware register is unclobbered between definition and last
\* use.
CoalescePass1(b) ==
    {v \in CoalDefined(b) :
        \A j \in (DefIdx(b, v) + 1)..LastRead(b, v) : ~Clobbers(b[j], RegOf(b, v))}

\* Every move is a no-op.
NoOpMoveAnyMove(b, j, v, co1) == b[j].op = "def" /\ b[j].src # 0

\* A move of v into v's own register whose destination pass 1 coalesced.
NoOpMove(b, j, v, co1) ==
    /\ b[j].op = "def" /\ b[j].src = v
    /\ b[j].reg = RegOf(b, v)
    /\ b[j].v \in co1

\* Pass 2: the remaining candidates are re-checked with the pass 1 coalesced
\* moves treated as no-ops.
CoalescePass2(b, co1) ==
    co1 \cup
    {v \in CoalDefined(b) \ co1 :
        \A j \in (DefIdx(b, v) + 1)..LastRead(b, v) :
            Clobbers(b[j], RegOf(b, v)) => NoOpMove(b, j, v, co1)}

RunPass1 ==
    /\ cpass = 0
    /\ cco' = <<CoalescePass1(cbody), {}>>
    /\ cplace' = cbind
    /\ cpass' = 1
    /\ UNCHANGED <<cbody, cbind, cpc, cmem, cobs>>
    /\ UNCHANGED NotCoal

RunPass2 ==
    /\ cpass = 1
    /\ cco' = <<cco[1], CoalescePass2(cbody, cco[1])>>
    /\ cplace' = cplace
    /\ cpass' = 2
    /\ cmem' = [reg |-> 0, slot |-> [v \in CoalVRegs |-> 0]]
    /\ UNCHANGED <<cbody, cbind, cpc, cobs>>
    /\ UNCHANGED NotCoal

\* A VReg is read from the hardware register when coalesced, else from a
\* memory slot of its own.
CoalRead(v) == IF v \in cco[2] THEN cmem.reg ELSE cmem.slot[v]

CRunning == cpass = 2 /\ cpc <= Len(cbody)

\* An operation leaves its result in the register; a move copies its source
\* there; a non-coalesced VReg is stored to its slot.
CoalExecDef ==
    /\ CRunning /\ cbody[cpc].op = "def"
    /\ LET ins == cbody[cpc]
           val == IF ins.src = 0 THEN ins.v ELSE CoalRead(ins.src)
       IN  cmem' = [reg |-> val,
                    slot |-> IF ins.v \in cco[2] THEN cmem.slot
                             ELSE [cmem.slot EXCEPT ![ins.v] = val]]
    /\ cpc' = cpc + 1
    /\ UNCHANGED <<cbody, cbind, cpass, cco, cplace, cobs>>
    /\ UNCHANGED NotCoal

CoalExecUse ==
    /\ CRunning /\ cbody[cpc].op = "use"
    /\ cobs' = << [v |-> cbody[cpc].v, got |-> CoalRead(cbody[cpc].v)] >>
    /\ cpc' = cpc + 1
    /\ UNCHANGED <<cbody, cbind, cpass, cco, cplace, cmem>>
    /\ UNCHANGED NotCoal

\* The callee may clobber the hardware register.
CoalExecCall ==
    /\ CRunning /\ cbody[cpc].op = "call"
    /\ cmem' = [cmem EXCEPT !.reg = 0]
    /\ cpc' = cpc + 1
    /\ UNCHANGED <<cbody, cbind, cpass, cco, cplace, cobs>>
    /\ UNCHANGED NotCoal

CoalNext == RunPass1 \/ RunPass2 \/ CoalExecDef \/ CoalExecUse \/ CoalExecCall

InitCoal == CoreIdle /\ SCIdle /\ LoopIdle /\ RAIdle /\ AbiIdle /\ IrqIdle /\ PresIdle /\ NeverIdle /\ DispIdle /\ ForIdle /\ CoalInit /\ IdemIdle /\ FrameIdle

SpecCoal == InitCoal /\ [][CoalNext]_vars

RECURSIVE Origin(_, _)
\* The operation whose result a VReg holds, through any chain of moves.
Origin(b, v) ==
    IF b[DefIdx(b, v)].src = 0 THEN v ELSE Origin(b, b[DefIdx(b, v)].src)

\* An operation at j that puts another value into the register of v.
Overwrites(b, j, v) ==
    Clobbers(b[j], RegOf(b, v))
        /\ ~(b[j].op = "def" /\ b[j].src # 0
             /\ Origin(b, b[j].src) = Origin(b, v))

\* C26: a VReg is in a hardware register only if nothing else overwrites the
\* register between its definition and its last use, moves coalesced in
\* pass 1 counting as no-ops in pass 2; what pass 1 coalesced stays coalesced
\* after pass 2; explicit bindings and fixed addresses stay where they are;
\* and every use of a VReg reads the value it holds.
TwoPassCoalescingSound ==
    /\ cpass >= 1 =>
          /\ cplace = cbind
          /\ \A v \in cco[1] :
                \A j \in (DefIdx(cbody, v) + 1)..LastRead(cbody, v) :
                    ~Clobbers(cbody[j], RegOf(cbody, v))
    /\ cpass = 2 =>
          /\ cco[1] \subseteq cco[2]
          /\ \A v \in cco[2] :
                \A j \in (DefIdx(cbody, v) + 1)..LastRead(cbody, v) :
                    ~Overwrites(cbody, j, v)
    /\ cobs # <<>> => cobs[1].got = Origin(cbody, cobs[1].v)

\* v1 is copied to v2 and used afterwards: pass 1 coalesces only v2, pass 2
\* also v1, and both were read from the register.
CascadingCoalescence ==
    /\ cpass = 2 /\ cpc = Len(cbody) + 1
    /\ 1 \notin cco[1] /\ 2 \in cco[1] /\ 1 \in cco[2]
    /\ cbody[DefIdx(cbody, 2)].src = 1
    /\ cobs # <<>> /\ cbind # <<>>

(***************************************************************************)
(* The branch fixup pass run on its own output.                            *)
(***************************************************************************)
IdemInit ==
    /\ \E pair \in CondPairs :
         \E brs \in [Points -> {NoBranch} \cup (pair \X (0..NumPoints))] :
           \E gaps \in [Points -> GapSizes] :
             gorig = WithIds(Layout(brs, gaps, 0))
    /\ gonce = <<>>
    /\ gtwice = <<>>
    /\ gphase = "emitted"

\* The pass on the emitted list.
FixupFirstRun ==
    /\ gphase = "emitted"
    /\ gonce' = FixupPass(gorig)
    /\ gphase' = "fixed"
    /\ UNCHANGED <<gorig, gtwice>>
    /\ UNCHANGED NotIdem

\* The pass on its own output.
FixupSecondRun ==
    /\ gphase = "fixed"
    /\ gtwice' = FixupPass(gonce)
    /\ gphase' = "fixed_again"
    /\ UNCHANGED <<gorig, gonce>>
    /\ UNCHANGED NotIdem

IdemNext == FixupFirstRun \/ FixupSecondRun

InitIdem == CoreIdle /\ SCIdle /\ LoopIdle /\ RAIdle /\ AbiIdle /\ IrqIdle /\ PresIdle /\ NeverIdle /\ DispIdle /\ ForIdle /\ CoalIdle /\ IdemInit /\ FrameIdle

SpecIdem == InitIdem /\ [][IdemNext]_vars

MaxStackParams == 2   \* u8 stack parameters of the function

StackTop == 8191      \* #[stack(0x1F00, 0x1FFF)]

ArgValues == {10, 20, 200}
ArgLists == UNION { [1..n -> ArgValues] : n \in 1..MaxStackParams }

Op(op, arg) == [op |-> op, arg |-> arg]

\* The arguments are pushed right to left, then JSR.
CallerCode(args) ==
    [k \in 1..(2 * Len(args)) |->
        IF k % 2 = 1 THEN Op("LDA_imm", args[Len(args) - (k \div 2)])
        ELSE Op("PHA", 0)]
    \o <<Op("JSR", 0)>>

\* The body adds the parameters: LDA $03,S; CLC; ADC $04,S; ...
SumCode(n) ==
    <<Op("LDA_S", 3)>> \o
    [k \in 1..(2 * (n - 1)) |->
        IF k % 2 = 1 THEN Op("CLC", 0) ELSE Op("ADC_S", 3 + (k \div 2))]

\* Callee cleanup: remove n parameter bytes, keeping the return address.
CleanupCode(n) ==
    <<Op("PLX", 0), Op("REP20", 0), Op("TSC", 0), Op("CLC", 0),
      Op("ADC_imm", n), Op("TCS", 0), Op("SEP20", 0), Op("PHX", 0), Op("RTS", 0)>>

CalleeCode(n) == SumCode(n) \o CleanupCode(n)

FrameCode(args) == CallerCode(args) \o CalleeCode(Len(args))

\* The caller runs in m8 with anything in B and on the stack.
FrameInit ==
    /\ sargs \in ArgLists
    /\ sreg \in [A : {0}, B : {0, 3}, X : {259}, M : {1}, C : {0, 1}]
    /\ sstack \in {<<>>, CallerFrames}
    /\ spc = 1
    /\ sentry = <<>>
    /\ sobs = <<>>

\* The stack pointer: the stack grows downwards from StackTop.
SP(st) == StackTop - Len(st)
StackRel(st, k) == st[Len(st) + 1 - k]

RECURSIVE SumArgs(_)
SumArgs(args) == IF args = <<>> THEN 0 ELSE Head(args) + SumArgs(Tail(args))

\* ADC in the accumulator width of the M flag.
AddWithCarry(r, operand) ==
    IF r.M = 1
    THEN [r EXCEPT !.A = (r.A + operand + r.C) % 256,
                   !.C = (r.A + operand + r.C) \div 256]
    ELSE LET sum == r.B * 256 + r.A + operand + r.C
         IN  [r EXCEPT !.A = Lo(sum % 65536), !.B = Hi(sum % 65536),
                       !.C = sum \div 65536]

FrameExecReg(ins, r, st) ==
    CASE ins.op = "LDA_imm" -> [r EXCEPT !.A = ins.arg]
      [] ins.op = "LDA_S"   -> [r EXCEPT !.A = StackRel(st, ins.arg)]
      [] ins.op = "CLC"     -> [r EXCEPT !.C = 0]
      [] ins.op = "ADC_S"   -> AddWithCarry(r, StackRel(st, ins.arg))
      [] ins.op = "ADC_imm" -> AddWithCarry(r, ins.arg)
      [] ins.op = "TSC"     -> [r EXCEPT !.A = Lo(SP(st)), !.B = Hi(SP(st))]
      [] OTHER              -> ExecReg(ins.op, r, st)

FrameExecStack(ins, r, st) ==
    CASE ins.op = "JSR" -> Append(Append(st, ReturnAddress[1]), ReturnAddress[2])
      [] ins.op = "TCS" -> SubSeq(st, 1, StackTop - (r.B * 256 + r.A))
      [] OTHER          -> ExecStack(ins.op, r, st)

SIns == FrameCode(sargs)[spc]
InCaller == spc <= Len(CallerCode(sargs))

\* LDA #arg; PHA; ...; JSR add
CallerStep ==
    /\ InCaller
    /\ sentry' = IF spc = 1 THEN << [sp |-> SP(sstack)] >> ELSE sentry
    /\ sreg' = FrameExecReg(SIns, sreg, sstack)
    /\ sstack' = FrameExecStack(SIns, sreg, sstack)
    /\ spc' = spc + 1
    /\ UNCHANGED <<sargs, sobs>>
    /\ UNCHANGED NotFrame

\* One instruction of the callee before its RTS.
CalleeStep ==
    /\ ~InCaller /\ spc <= Len(FrameCode(sargs)) /\ SIns.op # "RTS"
    /\ sreg' = FrameExecReg(SIns, sreg, sstack)
    /\ sstack' = FrameExecStack(SIns, sreg, sstack)
    /\ spc' = spc + 1
    /\ UNCHANGED <<sargs, sentry, sobs>>
    /\ UNCHANGED NotFrame

\* RTS pulls the return address.
CalleeReturn ==
    /\ ~InCaller /\ spc <= Len(FrameCode(sargs)) /\ SIns.op = "RTS"
    /\ sobs' = << [sp |-> SP(Drop(sstack, 2)),
                   ret |-> <<StackRel(sstack, 2), StackRel(sstack, 1)>>,
                   A |-> sreg.A, M |-> sreg.M] >>
    /\ sstack' = Drop(sstack, 2)
    /\ spc' = spc + 1
    /\ UNCHANGED <<sargs, sreg, sentry>>
    /\ UNCHANGED NotFrame

FrameNext == CallerStep \/ CalleeStep \/ CalleeReturn

InitFrame == CoreIdle /\ SCIdle /\ LoopIdle /\ RAIdle /\ AbiIdle /\ IrqIdle /\ PresIdle /\ NeverIdle /\ DispIdle /\ ForIdle /\ CoalIdle /\ IdemIdle /\ FrameInit

SpecFrame == InitFrame /\ [][FrameNext]_vars

\* C30: after the callee's cleanup and return the stack pointer is what it
\* was before the caller pushed the arguments, control is back at the
\* caller's return address, and A holds the function's result.
StackFrameRestored ==
    sobs # <<>> =>
       /\ sobs[1].sp = sentry[1].sp
       /\ sobs[1].ret = ReturnAddress
       /\ sobs[1].A = SumArgs(sargs) % 256

====
